---- MODULE Spec2Model ----
(***************************************************************************)
(* A model of the eskdale-minigolf scripts: the WebSocket command relay    *)
(* (blender_ws.py), the elliptical terrain cuts, the spline and ribbon     *)
(* builders, the rotation drivers and the scene graph the build scripts    *)
(* mutate by name.  Each part has its own specification over the shared    *)
(* variables; a part's specification leaves the other parts' variables at  *)
(* their initial values.                                                   *)
(***************************************************************************)
EXTENDS Integers, Naturals, Sequences, FiniteSets, TLC

VARIABLES
    \* ---- command relay (blender_ws.py) ----
    environ,    \* the process environment: BLENDER_WS_URL or "unset"
    pc,         \* position of the running send_command call
    call,       \* arguments of the running call
    conn,       \* the connection (ws) of the running call
    wire,       \* the frames written to that connection, in order
    leaked,     \* connections of ended calls that were never closed
    inbox,      \* frames the host has written to the current connection
    waited,     \* seconds the current recv has blocked
    result,     \* the decoded reply of the running call
    outcome,    \* how the last call ended: a return value or an exception
    ncalls,     \* calls started so far
    \* ---- terrain cuts ----
    terrain,    \* the vertices (co.x, co.y, co.z) of the terrain mesh
    lastCut,    \* the last cut: operation, arguments, heights before, count
    ncuts,      \* cuts run so far
    \* ---- splines and ribbon meshes ----
    ctrl,       \* the control points handed to catmull_rom_chain
    centerline, \* the chain it returned
    ribbon,     \* the mesh built from the centerline
    stage,      \* what the hole builder did last
    \* ---- rotation drivers ----
    drivers,    \* the objects that carry a rotation driver
    frame,      \* scene.frame_current
    rotation,   \* the value each driver's expression has at this frame
    prev,       \* frame and driver values before the last frame change
    \* ---- scene data touched by the build scripts (bpy.data) ----
    scene,      \* objects, materials and collections of the open scene
    last,       \* the last script or helper run, what it found missing, how it ended
    nruns,      \* scripts and helpers run so far
    \* ---- face insertion in the mesh builders (bm.faces.new) ----
    build,      \* the builder at work: its face loop, the faces made, what it printed
    \* ---- network fetch scripts (fetch_dem.py, fetch_fairfield.py) ----
    disk,       \* the files in the local data directory
    fetch,      \* the fetch script at work: position, requests issued, tiles pasted, output
    \* ---- driver wiring in the build scripts (driver_add) ----
    wiring,     \* the script at work: its steps done, the warnings it printed, how it ended
    \* ---- landscaping (apply_pbr_landscaping.py) ----
    land,       \* the Python process and the landscaping run in it: hashes, generator, names
    \* ---- command line of blender_ws.py (__main__) ----
    cli,        \* the invocation at work: argv, the requests it issued, its output, its exit status
    \* ---- golf course placement (terrain_and_place.py, reposition_golf.py, emplace_terrain.py) ----
    place,      \* location, rotation and scale of the objects, the last placement run and what it found
    \* ---- collection membership (link_to_collection) ----
    links,      \* the collections an object is a member of, and the last link_to_collection call
    \* ---- DEM sampling (terrain_z_at and the target lookups) ----
    sample,     \* the last elevation lookup: the coordinate, the DEM shape, the indices used
    \* ---- bpy.data objects and meshes ----
    store       \* objects, mesh data blocks and the script runs on them

vars ==
    <<environ, pc, call, conn, wire, leaked, inbox, waited, result, outcome, ncalls,
      terrain, lastCut, ncuts, ctrl, centerline, ribbon, stage,
      drivers, frame, rotation, prev, scene, last, nruns,
      build,
      disk, fetch,
      wiring,
      land,
      cli,
      place,
      links,
      sample,
      store>>

\* What each part leaves alone.
notRelay ==
    <<terrain, lastCut, ncuts, ctrl, centerline, ribbon, stage, drivers, frame, rotation, prev,
      scene, last, nruns,
      build,
      disk, fetch,
      wiring,
      land,
      cli,
      place,
      links,
      sample,
      store>>
notCut ==
    <<environ, pc, call, conn, wire, leaked, inbox, waited, result, outcome, ncalls,
      ctrl, centerline, ribbon, stage, drivers, frame, rotation, prev, scene, last, nruns,
      build,
      disk, fetch,
      wiring,
      land,
      cli,
      place,
      links,
      sample,
      store>>
notRibbon ==
    <<environ, pc, call, conn, wire, leaked, inbox, waited, result, outcome, ncalls,
      terrain, lastCut, ncuts, drivers, frame, rotation, prev, scene, last, nruns,
      build,
      disk, fetch,
      wiring,
      land,
      cli,
      place,
      links,
      sample,
      store>>
notDriver ==
    <<environ, pc, call, conn, wire, leaked, inbox, waited, result, outcome, ncalls,
      terrain, lastCut, ncuts, ctrl, centerline, ribbon, stage, scene, last, nruns,
      build,
      disk, fetch,
      wiring,
      land,
      cli,
      place,
      links,
      sample,
      store>>
notScene ==
    <<environ, pc, call, conn, wire, leaked, inbox, waited, result, outcome, ncalls,
      terrain, lastCut, ncuts, ctrl, centerline, ribbon, stage, drivers, frame, rotation, prev,
      build,
      disk, fetch,
      wiring,
      land,
      cli,
      place,
      links,
      sample,
      store>>
notBuild ==
    <<environ, pc, call, conn, wire, leaked, inbox, waited, result, outcome, ncalls,
      terrain, lastCut, ncuts, ctrl, centerline, ribbon, stage,
      drivers, frame, rotation, prev, scene, last, nruns,
      disk, fetch,
      wiring,
      land,
      cli,
      place,
      links,
      sample,
      store>>
notFetch ==
    <<environ, pc, call, conn, wire, leaked, inbox, waited, result, outcome, ncalls,
      terrain, lastCut, ncuts, ctrl, centerline, ribbon, stage,
      drivers, frame, rotation, prev, scene, last, nruns,
      build,
      wiring,
      land,
      cli,
      place,
      links,
      sample,
      store>>
notWiring ==
    <<environ, pc, call, conn, wire, leaked, inbox, waited, result, outcome, ncalls,
      terrain, lastCut, ncuts, ctrl, centerline, ribbon, stage,
      drivers, frame, rotation, prev, scene, last, nruns,
      build,
      disk, fetch,
      land,
      cli,
      place,
      links,
      sample,
      store>>
notLand ==
    <<environ, pc, call, conn, wire, leaked, inbox, waited, result, outcome, ncalls,
      terrain, lastCut, ncuts, ctrl, centerline, ribbon, stage,
      drivers, frame, rotation, prev, scene, last, nruns,
      build,
      disk, fetch,
      wiring,
      cli,
      place,
      links,
      sample,
      store>>
notCli ==
    <<environ, pc, call, conn, wire, leaked, inbox, waited, result, outcome, ncalls,
      terrain, lastCut, ncuts, ctrl, centerline, ribbon, stage,
      drivers, frame, rotation, prev, scene, last, nruns,
      build,
      disk, fetch,
      wiring,
      land,
      place,
      links,
      sample,
      store>>
notPlace ==
    <<environ, pc, call, conn, wire, leaked, inbox, waited, result, outcome, ncalls,
      terrain, lastCut, ncuts, ctrl, centerline, ribbon, stage,
      drivers, frame, rotation, prev, scene, last, nruns,
      build,
      disk, fetch,
      wiring,
      land,
      cli,
      links,
      sample,
      store>>
notLink ==
    <<environ, pc, call, conn, wire, leaked, inbox, waited, result, outcome, ncalls,
      terrain, lastCut, ncuts, ctrl, centerline, ribbon, stage,
      drivers, frame, rotation, prev, scene, last, nruns,
      build,
      disk, fetch,
      wiring,
      land,
      cli,
      place,
      sample,
      store>>
notSample ==
    <<environ, pc, call, conn, wire, leaked, inbox, waited, result, outcome, ncalls,
      terrain, lastCut, ncuts, ctrl, centerline, ribbon, stage,
      drivers, frame, rotation, prev, scene, last, nruns,
      build,
      disk, fetch,
      wiring,
      land,
      cli,
      place,
      links,
      store>>
notStore ==
    <<environ, pc, call, conn, wire, leaked, inbox, waited, result, outcome, ncalls,
      terrain, lastCut, ncuts, ctrl, centerline, ribbon, stage,
      drivers, frame, rotation, prev, scene, last, nruns,
      build,
      disk, fetch,
      wiring,
      land,
      cli,
      place,
      links,
      sample>>

(***************************************************************************)
(* Bounds of the model.                                                    *)
(***************************************************************************)
MaxCalls == 2
MaxTimeout == 2
MaxCuts == 1
MaxPoints == 3
MaxSegments == 2
MaxFrame == 2
MaxRuns == 2
MaxRows == 2
MaxTiles == 2
MaxFetches == 2
MaxWirings == 2
MaxHash == 3
MaxClusters == 2
MaxLandRuns == 2
MaxCliRuns == 2
MaxPlacements == 2
MaxLinks == 2
MaxSamples == 1
MaxRebuilds == 4

(***************************************************************************)
(* Python values.                                                          *)
(***************************************************************************)
\* A dict is a function from its keys; the empty dict is the empty function.
EmptyDict == <<>>

\* dict.get(key, default)
DictGet(d, key, default) == IF key \in DOMAIN d THEN d[key] ELSE default

\* None, or a dict.
PyNone == [isNone |-> TRUE, dict |-> EmptyDict]

PyDict(d) == [isNone |-> FALSE, dict |-> d]

\* Truth value of an optional dict: None and {} are false.
Truthy(p) == ~p.isNone /\ DOMAIN p.dict # {}

(***************************************************************************)
(* blender_ws.py                                                           *)
(***************************************************************************)
DefaultUrl == "ws://127.0.0.1:8765"

\* The endpoint of a module that ignores the environment.
BLENDER_WS_URL_fixed == DefaultUrl

\* os.environ.get("BLENDER_WS_URL", "ws://127.0.0.1:8765")
BLENDER_WS_URL == IF environ = "unset" THEN DefaultUrl ELSE environ

Tools == {"get_scene_info", "execute_python"}

ParamChoices == {PyNone, PyDict(EmptyDict), PyDict([code |-> "print(1)"])}

\* The timeouts a caller passes, in seconds.  send_command hands the value
\* to create_connection unchanged, so the default of 120 behaves as these do.
TimeoutChoices == (1 .. MaxTimeout)

\* What time.time() * 1000 can read when a request is built (milliseconds).
ClockReadings == {0, 1234}

\* A text frame: valid JSON text holding an object, or text that is not JSON.
JsonFrame(obj) == [valid |-> TRUE, obj |-> obj]

BadFrame == [valid |-> FALSE, obj |-> EmptyDict]

\* json.dumps of a dict: a text frame that decodes to the same members.
JsonDumps(obj) == JsonFrame(obj)

\* The replies a host can send.
HostReplies ==
    { JsonFrame([status |-> "ok", data |-> [objects |-> "3"]]),
      JsonFrame([status |-> "ok"]),
      JsonFrame([status |-> "error", error |-> "name 'x' is not defined"]),
      JsonFrame([status |-> "error", error |-> ""]),
      JsonFrame([status |-> "error"]),
      JsonFrame([error |-> "unknown tool"]),
      BadFrame }

NoOutcome == [kind |-> "none", exc |-> "", msg |-> "", value |-> EmptyDict]

Returned(v) == [kind |-> "return", exc |-> "", msg |-> "", value |-> v]

Raised(e, m) == [kind |-> "raise", exc |-> e, msg |-> m, value |-> EmptyDict]

NoCall == [tool |-> "", params |-> PyNone, timeout |-> 0]

\* A request that carries a params member whatever the caller passed.
BuildMsgWithParams(tool, params, now) ==
    [id |-> ToString(now), tool |-> tool, params |-> params.dict]

\* The request dict of lines 15-17.
BuildMsg(tool, params, now) ==
    LET msg == [id |-> ToString(now), tool |-> tool]
    IN  IF Truthy(params)
        THEN [k \in {"id", "tool", "params"} |->
                 IF k = "params" THEN params.dict ELSE msg[k]]
        ELSE msg

ErrorMessageBare(res) == DictGet(res, "error", "unknown")

\* The message of the RuntimeError of line 22.
ErrorMessage(res) == "Blender error: " \o DictGet(res, "error", "unknown")

NoConn == [url |-> "", timeout |-> 0, open |-> FALSE, recvd |-> 0, waiting |-> FALSE]

InitRelay ==
    /\ environ \in {"unset", "ws://10.0.0.5:9000"}
    /\ pc = "idle"
    /\ call = NoCall
    /\ conn = NoConn
    /\ wire = <<>>
    /\ leaked = 0
    /\ inbox = <<>>
    /\ waited = 0
    /\ result = EmptyDict
    /\ outcome = NoOutcome
    /\ ncalls = 0

\* A caller enters send_command(tool, params, timeout).
Call(tool, params, timeout) ==
    /\ pc \in {"idle", "returned", "raised"}
    /\ ncalls < MaxCalls
    /\ pc' = "connect"
    /\ call' = [tool |-> tool, params |-> params, timeout |-> timeout]
    /\ ncalls' = ncalls + 1
    /\ outcome' = NoOutcome
    /\ result' = EmptyDict
    /\ inbox' = <<>>
    /\ waited' = 0
    \* ws is a local of the ended call: nothing can close it any more
    /\ leaked' = IF conn.open THEN leaked + 1 ELSE leaked
    /\ conn' = NoConn
    /\ wire' = <<>>
    /\ UNCHANGED environ
    /\ UNCHANGED notRelay

\* Line 14: websocket.create_connection(BLENDER_WS_URL, timeout=timeout).
Connect ==
    /\ pc = "connect"
    /\ conn' = [url |-> BLENDER_WS_URL, timeout |-> call.timeout, open |-> TRUE,
                recvd |-> 0, waiting |-> FALSE]
    /\ pc' = "send"
    /\ UNCHANGED <<environ, call, wire, leaked, inbox, waited, result, outcome, ncalls>>
    /\ UNCHANGED notRelay

\* Line 14 when no host listens: create_connection raises.
ConnectFail ==
    /\ pc = "connect"
    /\ pc' = "raised"
    /\ outcome' = Raised("ConnectionRefusedError", "")
    /\ UNCHANGED <<environ, call, conn, wire, leaked, inbox, waited, result, ncalls>>
    /\ UNCHANGED notRelay

SendFramesTwice(msg) == <<JsonDumps(msg), JsonDumps(msg)>>

\* Line 18: ws.send(json.dumps(msg)) writes one text frame.
SendFrames(msg) == <<JsonDumps(msg)>>

\* Lines 15-18: build the request and send it.
Send(now) ==
    /\ pc = "send"
    /\ wire' = wire \o SendFrames(BuildMsg(call.tool, call.params, now))
    /\ conn' = [conn EXCEPT !.waiting = TRUE]
    /\ pc' = "recv"
    /\ waited' = 0
    /\ UNCHANGED <<environ, call, leaked, inbox, result, outcome, ncalls>>
    /\ UNCHANGED notRelay

\* The host answers the request it was sent (it may also never do so).
HostReply(reply) ==
    /\ pc = "recv"
    /\ inbox = <<>>
    /\ Len(wire) > 0
    /\ inbox' = <<reply>>
    /\ UNCHANGED <<environ, pc, call, conn, wire, leaked, waited, result, outcome, ncalls>>
    /\ UNCHANGED notRelay

\* A second passes while recv blocks.
Tick ==
    /\ pc = "recv"
    /\ inbox = <<>>
    /\ waited < conn.timeout
    /\ waited' = waited + 1
    /\ UNCHANGED <<environ, pc, call, conn, wire, leaked, inbox, result, outcome, ncalls>>
    /\ UNCHANGED notRelay

NeverTimedOut == FALSE

\* Line 19, no frame within the socket timeout: ws.recv() raises.
TimedOut == waited >= conn.timeout

RecvTimeout ==
    /\ pc = "recv"
    /\ inbox = <<>>
    /\ TimedOut
    /\ pc' = "raised"
    /\ outcome' = Raised("WebSocketTimeoutException", "")
    /\ conn' = [conn EXCEPT !.waiting = FALSE]
    /\ UNCHANGED <<environ, call, wire, leaked, inbox, waited, result, ncalls>>
    /\ UNCHANGED notRelay

\* Line 19: result = json.loads(ws.recv()).
Recv ==
    /\ pc = "recv"
    /\ inbox # <<>>
    /\ LET text == Head(inbox)
       IN  /\ inbox' = Tail(inbox)
           /\ conn' = [conn EXCEPT !.recvd = @ + 1, !.waiting = FALSE]
           /\ IF text.valid
              THEN /\ result' = text.obj
                   /\ pc' = "close"
                   /\ UNCHANGED outcome
              ELSE /\ pc' = "raised"
                   /\ outcome' = Raised("JSONDecodeError", "")
                   /\ UNCHANGED result
    /\ UNCHANGED <<environ, call, wire, leaked, waited, ncalls>>
    /\ UNCHANGED notRelay

\* Line 20: ws.close().
Close ==
    /\ pc = "close"
    /\ conn' = [conn EXCEPT !.open = FALSE]
    /\ pc' = "check"
    /\ UNCHANGED <<environ, call, wire, leaked, inbox, waited, result, outcome, ncalls>>
    /\ UNCHANGED notRelay

\* Lines 21-23: raise on an error status, else return the data member (or
\* the whole reply when it has none).
Check ==
    /\ pc = "check"
    /\ IF DictGet(result, "status", "") = "error"
       THEN /\ pc' = "raised"
            /\ outcome' = Raised("RuntimeError", ErrorMessage(result))
       ELSE /\ pc' = "returned"
            /\ outcome' = Returned(DictGet(result, "data", result))
    /\ UNCHANGED <<environ, call, conn, wire, leaked, inbox, waited, result, ncalls>>
    /\ UNCHANGED notRelay

NextRelay ==
    \/ \E t \in Tools, p \in ParamChoices, s \in TimeoutChoices : Call(t, p, s)
    \/ Connect
    \/ ConnectFail
    \/ \E now \in ClockReadings : Send(now)
    \/ \E f \in HostReplies : HostReply(f)
    \/ Tick
    \/ RecvTimeout
    \/ Recv
    \/ Close
    \/ Check

(***************************************************************************)
(* Exact rational arithmetic for the float computations of the terrain     *)
(* cuts.  A rational is [n, d] in lowest terms with d > 0.                 *)
(***************************************************************************)
RECURSIVE GCD(_, _)
GCD(a, b) == IF b = 0 THEN a ELSE GCD(b, a % b)

Rat(n, d) ==
    LET Abs(i) == IF i < 0 THEN -i ELSE i
        g == GCD(Abs(n), Abs(d))
        s == IF d < 0 THEN -1 ELSE 1
    IN  [n |-> (s * n) \div g, d |-> (s * d) \div g]

Int2Rat(i) == [n |-> i, d |-> 1]

RatNeg(a) == [n |-> -a.n, d |-> a.d]

RatAdd(a, b) ==
    LET g == GCD(a.d, b.d)
        l == (a.d \div g) * b.d
    IN  Rat(a.n * (l \div a.d) + b.n * (l \div b.d), l)

RatSub(a, b) == RatAdd(a, RatNeg(b))

RatMul(a, b) ==
    LET Abs(i) == IF i < 0 THEN -i ELSE i
        g1 == GCD(Abs(a.n), b.d)
        g2 == GCD(Abs(b.n), a.d)
    IN  Rat((a.n \div g1) * (b.n \div g2), (a.d \div g2) * (b.d \div g1))

RatDiv(a, b) == RatMul(a, Rat(b.d, b.n))

RatLess(a, b) ==
    LET g == GCD(a.d, b.d)
    IN  a.n * (b.d \div g) < b.n * (a.d \div g)

RatMax(a, b) == IF RatLess(a, b) THEN b ELSE a

RatMin(a, b) == IF RatLess(b, a) THEN b ELSE a

\* The root of a perfect square.
ISqrt(k) == CHOOSE r \in 0 .. k : r * r = k

\* math.sqrt, exact where the argument is the square of a rational; the
\* vertices of the model lie on the two axes through the cut centre, where
\* the elliptical distance is such a number.
RatSqrt(q) == [n |-> ISqrt(q.n), d |-> ISqrt(q.d)]

Zero == Int2Rat(0)
One == Int2Rat(1)

(***************************************************************************)
(* The terrain cuts: fix_terrain_cut.py, fix_terrain_hole.py,              *)
(* terrain_and_place.py and reposition_golf.py.                            *)
(***************************************************************************)
GOLF_CENTER == <<Rat(2085, 100), Rat(385, 10)>>
GOLF_HIGH == <<Rat(217, 10), Int2Rat(37)>>
GOLF_LOW == <<Int2Rat(20), Int2Rat(40)>>

\* The constants of fix_terrain_cut.py
TerrainCut ==
    [CUT_RX |-> Rat(65, 10), CUT_RY |-> Rat(75, 10),
     CUT_Z_HIGH |-> Rat(90, 100), CUT_Z_LOW |-> Rat(10, 100)]

\* and of fix_terrain_hole.py
TerrainHole ==
    [CUT_RX |-> Int2Rat(7), CUT_RY |-> Int2Rat(8),
     CUT_Z_HIGH |-> Rat(85, 100), CUT_Z_LOW |-> Rat(5, 100)]

\* Vertex positions, as offsets from GOLF_CENTER: the centre, points of the
\* inner zones, of the blend zones, on the boundaries and outside.
VertexOffsets ==
    << <<Zero, Zero>>,
       <<Rat(35, 10), Zero>>,
       <<Zero, Int2Rat(6)>>,
       <<Zero, Rat(75, 10)>>,
       <<Zero, Int2Rat(-8)>>,
       <<Rat(-65, 10), Zero>> >>

NVerts == Len(VertexOffsets)

HeightChoices == {Zero, Rat(1, 2), One}

TargetChoices == {Zero, One}

\* (rx, ry) handed to cut_terrain.
RadiiChoices == { <<Int2Rat(7), Int2Rat(10)>>, <<Int2Rat(5), Int2Rat(5)>> }

\* golf_radius_bu handed to cut_terrain_for_golf.
GolfRadiusChoices == { Int2Rat(5), Int2Rat(10) }

Vertex(i, z) ==
    [x |-> RatAdd(GOLF_CENTER[1], VertexOffsets[i][1]),
     y |-> RatAdd(GOLF_CENTER[2], VertexOffsets[i][2]),
     z |-> z]

Sq(a) == RatMul(a, a)

\* dist = math.sqrt(dx * dx + dy * dy) with dx = (x - cx) / rx.
EllipseDist(x, y, cx, cy, rx, ry) ==
    LET dx == RatDiv(RatSub(x, cx), rx)
        dy == RatDiv(RatSub(y, cy), ry)
    IN  RatSqrt(RatAdd(Sq(dx), Sq(dy)))

ellipse_dist(x, y, rx, ry) ==
    EllipseDist(x, y, GOLF_CENTER[1], GOLF_CENTER[2], rx, ry)

\* t * t * (3 - 2 * t)
Hermite(t) == RatMul(Sq(t), RatSub(Int2Rat(3), RatMul(Int2Rat(2), t)))

smoothstep(t) == Hermite(RatMax(Zero, RatMin(One, t)))

\* slope_direction() returns (dx / length, dy / length, length); the callers
\* use (px * dx / length + py * dy / length) / length, in which the root
\* cancels: the projection divided by the squared length.
slope_param(x, y) ==
    LET dx == RatSub(GOLF_LOW[1], GOLF_HIGH[1])
        dy == RatSub(GOLF_LOW[2], GOLF_HIGH[2])
        px == RatSub(x, GOLF_HIGH[1])
        py == RatSub(y, GOLF_HIGH[2])
        t  == RatDiv(RatAdd(RatMul(px, dx), RatMul(py, dy)),
                     RatAdd(Sq(dx), Sq(dy)))
    IN  RatMax(Zero, RatMin(One, t))

\* z * (1.0 - blend) + target_z * blend
Blend(z, target_z, blend) ==
    RatAdd(RatMul(z, RatSub(One, blend)), RatMul(target_z, blend))

\* A cut loop that takes every vertex as lying within the ellipse.
InsideAlways(dist) == TRUE

\* if dist < 1.0 (if dist >= 1.0: continue)
Inside(dist) == RatLess(dist, One)

\* One iteration of a cut loop gives the vertex's height and whether the
\* iteration counted the vertex.
Kept(v) == [z |-> v.z, counted |-> FALSE]

\* terrain_and_place.cut_terrain, loop body.
CutTerrainVertex(v, center, target_z, rx, ry) ==
    LET dist  == EllipseDist(v.x, v.y, center[1], center[2], rx, ry)
        blend == IF RatLess(dist, Rat(6, 10))
                 THEN One
                 ELSE RatSub(One, Hermite(RatDiv(RatSub(dist, Rat(6, 10)), Rat(4, 10))))
    IN  IF Inside(dist)
        THEN [z |-> Blend(v.z, target_z, blend), counted |-> TRUE]
        ELSE Kept(v)

AlwaysCut(new_z, z) == TRUE

\* "Only cut DOWN, never raise terrain": if new_z < v.co.z.
OnlyCutDown(new_z, z) == RatLess(new_z, z)

\* fix_terrain_cut.cut_mesh, loop body.
CutMeshVertex(v) ==
    LET dist     == ellipse_dist(v.x, v.y, TerrainCut.CUT_RX, TerrainCut.CUT_RY)
        t_slope  == slope_param(v.x, v.y)
        target_z == RatAdd(TerrainCut.CUT_Z_HIGH,
                           RatMul(t_slope, RatSub(TerrainCut.CUT_Z_LOW,
                                                  TerrainCut.CUT_Z_HIGH)))
        blend    == IF RatLess(dist, Rat(55, 100))
                    THEN One
                    ELSE RatSub(One, smoothstep(RatDiv(RatSub(dist, Rat(55, 100)), Rat(45, 100))))
        new_z    == Blend(v.z, target_z, blend)
    IN  IF ~Inside(dist)
        THEN Kept(v)
        ELSE IF OnlyCutDown(new_z, v.z)
             THEN [z |-> new_z, counted |-> TRUE]
             ELSE Kept(v)

\* fix_terrain_hole.depress_surrounding_terrain, loop body.
DepressVertex(v) ==
    LET d        == ellipse_dist(v.x, v.y, TerrainHole.CUT_RX, TerrainHole.CUT_RY)
        t        == slope_param(v.x, v.y)
        target_z == RatAdd(TerrainHole.CUT_Z_HIGH,
                           RatMul(t, RatSub(TerrainHole.CUT_Z_LOW, TerrainHole.CUT_Z_HIGH)))
        blend    == IF RatLess(d, Rat(5, 10))
                    THEN One
                    ELSE RatSub(One, smoothstep(RatDiv(RatSub(d, Rat(5, 10)), Rat(5, 10))))
        new_z    == Blend(v.z, target_z, blend)
    IN  IF ~Inside(d)
        THEN Kept(v)
        ELSE IF RatLess(new_z, v.z)
             THEN [z |-> new_z, counted |-> TRUE]
             ELSE Kept(v)

\* reposition_golf.cut_terrain_for_golf, loop body.
GolfCutVertex(v, center, target_z, rx, ry) ==
    LET dist  == EllipseDist(v.x, v.y, center[1], center[2], rx, ry)
        b     == RatSub(One, RatDiv(RatSub(dist, Rat(7, 10)), Rat(3, 10)))
        blend == IF RatLess(dist, Rat(7, 10)) THEN One ELSE Hermite(b)
        new_z == Blend(v.z, target_z, blend)
    IN  IF Inside(dist) /\ new_z # v.z
        THEN [z |-> new_z, counted |-> TRUE]
        ELSE Kept(v)

NoCut ==
    [op |-> "none", cx |-> Zero, cy |-> Zero, rx |-> One, ry |-> One,
     before |-> <<>>, modified |-> 0]

Heights(verts) == [i \in DOMAIN verts |-> verts[i].z]

InitCut ==
    /\ terrain \in { [i \in 1 .. NVerts |-> Vertex(i, h[i])] :
                       h \in [1 .. NVerts -> HeightChoices] }
    /\ lastCut = NoCut
    /\ ncuts = 0

\* The whole loop of a cut: every vertex once, in one pass, then the mesh is
\* written back and the count reported.
RunCut(op, center, rx, ry, out) ==
    /\ ncuts < MaxCuts
    /\ terrain' = [i \in DOMAIN terrain |-> [terrain[i] EXCEPT !.z = out[i].z]]
    /\ lastCut' = [op |-> op, cx |-> center[1], cy |-> center[2],
                   rx |-> rx, ry |-> ry, before |-> Heights(terrain),
                   modified |-> Cardinality({i \in DOMAIN terrain : out[i].counted})]
    /\ ncuts' = ncuts + 1
    /\ UNCHANGED notCut

cut_terrain(center, target_z, rx, ry) ==
    RunCut("cut_terrain", center, rx, ry,
           [i \in DOMAIN terrain |-> CutTerrainVertex(terrain[i], center, target_z, rx, ry)])

cut_mesh ==
    RunCut("cut_mesh", GOLF_CENTER, TerrainCut.CUT_RX, TerrainCut.CUT_RY,
           [i \in DOMAIN terrain |-> CutMeshVertex(terrain[i])])

depress_surrounding_terrain ==
    RunCut("depress_surrounding_terrain", GOLF_CENTER, TerrainHole.CUT_RX, TerrainHole.CUT_RY,
           [i \in DOMAIN terrain |-> DepressVertex(terrain[i])])

cut_terrain_for_golf(target_center, target_z, golf_radius_bu) ==
    LET rx == RatMul(golf_radius_bu, Rat(13, 10))
        ry == RatMul(golf_radius_bu, Rat(18, 10))
    IN  RunCut("cut_terrain_for_golf", target_center, rx, ry,
               [i \in DOMAIN terrain |->
                    GolfCutVertex(terrain[i], target_center, target_z, rx, ry)])

NextCut ==
    \/ \E z \in TargetChoices, r \in RadiiChoices :
           cut_terrain(GOLF_CENTER, z, r[1], r[2])
    \/ cut_mesh
    \/ depress_surrounding_terrain
    \/ \E z \in TargetChoices, g \in GolfRadiusChoices :
           cut_terrain_for_golf(GOLF_CENTER, z, g)

(***************************************************************************)
(* Splines and ribbon meshes: hole_builder_utils.py, build_holes_2_4.py.   *)
(***************************************************************************)
Vec(x, y, z) == [x |-> x, y |-> y, z |-> z]

VecSub(a, b) == Vec(RatSub(a.x, b.x), RatSub(a.y, b.y), RatSub(a.z, b.z))

catmull_rom_unscaled(p0, p1, p2, p3, t) ==
    RatAdd(RatMul(Int2Rat(2), p1), RatMul(RatSub(p2, p0), t))

\* catmull_rom, one component.
catmull_rom(p0, p1, p2, p3, t) ==
    LET t2 == RatMul(t, t)
        t3 == RatMul(t2, t)
        c1 == RatAdd(RatNeg(p0), p2)
        c2 == RatSub(RatAdd(RatSub(RatMul(Int2Rat(2), p0), RatMul(Int2Rat(5), p1)),
                            RatMul(Int2Rat(4), p2)), p3)
        c3 == RatAdd(RatSub(RatAdd(RatNeg(p0), RatMul(Int2Rat(3), p1)),
                            RatMul(Int2Rat(3), p2)), p3)
    IN  RatMul(Rat(1, 2),
               RatAdd(RatAdd(RatAdd(RatMul(Int2Rat(2), p1), RatMul(c1, t)),
                             RatMul(c2, t2)),
                      RatMul(c3, t3)))

\* The inner loop of catmull_rom_chain for span i of the padded list pts
\* (i counts from 1 as in the code; pts[i] of the code is pts[i + 1] here).
ChainSpan(pts, i, segments_per_span) ==
    [k \in 1 .. segments_per_span |->
        LET t == Rat(k - 1, segments_per_span)
            a == pts[i]
            b == pts[i + 1]
            c == pts[i + 2]
            d == pts[i + 3]
        IN  Vec(catmull_rom(a.x, b.x, c.x, d.x, t),
                catmull_rom(a.y, b.y, c.y, d.y, t),
                catmull_rom(a.z, b.z, c.z, d.z, t))]

\* The outer loop: for i in range(1, len(pts) - 2).
RECURSIVE ChainSpans(_, _, _)
ChainSpans(pts, i, segments_per_span) ==
    IF i >= Len(pts) - 2
    THEN <<>>
    ELSE ChainSpan(pts, i, segments_per_span)
             \o ChainSpans(pts, i + 1, segments_per_span)

\* A chain without the closing append of the last control point.
catmull_rom_chain_open(points, segments_per_span) ==
    IF Len(points) < 2
    THEN points
    ELSE ChainSpans(<<points[1]>> \o points \o <<points[Len(points)]>>, 1, segments_per_span)

catmull_rom_chain(points, segments_per_span) ==
    IF Len(points) < 2
    THEN points
    ELSE LET pts == <<points[1]>> \o points \o <<points[Len(points)]>>
         IN  ChainSpans(pts, 1, segments_per_span) \o <<pts[Len(pts) - 1]>>

\* Vector((-tangent.y, tangent.x, 0)).normalized() for tangent = d.normalized():
\* normalizing d first scales the vector by a positive factor and leaves this
\* unit vector the same; a zero-length vector normalizes to itself.
Perp(d) ==
    LET len == RatSqrt(RatAdd(Sq(d.y), Sq(d.x)))
    IN  IF len = Zero
        THEN Vec(Zero, Zero, Zero)
        ELSE Vec(RatDiv(RatNeg(d.y), len), RatDiv(d.x, len), Zero)

\* The tangent direction at sample i (counted from 1) before normalization.
TangentDir(cl, i) ==
    IF i = 1 THEN VecSub(cl[2], cl[1])
    ELSE IF i = Len(cl) THEN VecSub(cl[Len(cl)], cl[Len(cl) - 1])
    ELSE VecSub(cl[i + 1], cl[i - 1])

\* left = pt + perp * half_w, right = pt - perp * half_w, z overridden.
Offset(pt, perp, half_w, side, z) ==
    Vec(RatAdd(pt.x, RatMul(Int2Rat(side), RatMul(perp.x, half_w))),
        RatAdd(pt.y, RatMul(Int2Rat(side), RatMul(perp.y, half_w))),
        z)

\* A bmesh under construction: verts holds the coordinates of the vertex
\* handles 1, 2, ...; a face is the tuple of its vertex handles.
NoMesh == [verts |-> <<>>, faces |-> <<>>, by |-> "none"]

Handles(face) == {face[k] : k \in DOMAIN face}

TriAt(i) == <<2 * i - 1, 2 * i, 2 * i + 2>>

\* [verts_left[i], verts_right[i], verts_right[i+1], verts_left[i+1]]: the
\* loop appends vl then vr for each sample, so sample i holds handles
\* 2i - 1 and 2i.
QuadAt(i) == <<2 * i - 1, 2 * i, 2 * i + 2, 2 * i + 1>>

\* bm.faces.new(f) inside try/except ValueError: the host refuses a face that
\* names a vertex twice or that exists already, and the code passes.
FacesNew(faces, f) ==
    IF \/ Cardinality(Handles(f)) # Len(f)
       \/ \E k \in DOMAIN faces : Handles(faces[k]) = Handles(f)
    THEN faces
    ELSE Append(faces, f)

\* for i in range(len(centerline) - 1): try faces.new(quad i)
RECURSIVE FaceLoop(_, _, _)
FaceLoop(faces, i, n) ==
    IF i > n - 1 THEN faces ELSE FaceLoop(FacesNew(faces, QuadAt(i)), i + 1, n)

\* The vertex loop of build_path_mesh.
PathVerts(cl, half_w) ==
    [h \in 1 .. 2 * Len(cl) |->
        LET i    == (h + 1) \div 2
            pt   == cl[i]
            perp == Perp(TangentDir(cl, i))
        IN  IF h % 2 = 1
            THEN Offset(pt, perp, half_w, 1, pt.z)
            ELSE Offset(pt, perp, half_w, -1, pt.z)]

BANK == Rat(6, 100)

\* The vertex loop of _build_banked_fairway.
BankedVerts(cl, spiral_center, half_w) ==
    [h \in 1 .. 2 * Len(cl) |->
        LET i    == (h + 1) \div 2
            pt   == cl[i]
            perp == Perp(TangentDir(cl, i))
            lead_margin == Len(cl) \div 6
            \* the code's index is i - 1
            bank == IF lead_margin < i - 1 /\ i - 1 < Len(cl) - lead_margin
                    THEN BANK ELSE Zero
            dot  == RatAdd(RatMul(RatSub(spiral_center.x, pt.x), perp.x),
                           RatMul(RatSub(spiral_center.y, pt.y), perp.y))
            inner_side == IF RatLess(Zero, dot) THEN 1 ELSE -1
        IN  IF h % 2 = 1
            THEN Offset(pt, perp, half_w, 1,
                        IF inner_side > 0 THEN RatAdd(pt.z, bank) ELSE pt.z)
            ELSE Offset(pt, perp, half_w, -1,
                        IF inner_side > 0 THEN pt.z ELSE RatAdd(pt.z, bank))]

\* Control points of a hole: in the plane y = 0, where the perpendicular of
\* every tangent is exact.
ControlPoints ==
    { Vec(Zero, Zero, Zero), Vec(One, Zero, Zero),
      Vec(Int2Rat(2), Zero, One), Vec(One, Zero, One) }

RECURSIVE SeqsOf(_, _)
SeqsOf(S, n) ==
    IF n = 0 THEN { <<>> }
    ELSE { Append(q, e) : q \in SeqsOf(S, n - 1), e \in S }

ControlLists == UNION { SeqsOf(ControlPoints, n) : n \in 2 .. MaxPoints }

WidthChoices == { Rat(6, 10), One }

SpiralCenters == { Vec(One, One, Zero), Vec(One, Int2Rat(-1), Zero) }

InitRibbon ==
    /\ ctrl = <<>>
    /\ centerline = <<>>
    /\ ribbon = NoMesh
    /\ stage = "start"

\* A hole builder smooths its control points: centerline = catmull_rom_chain(...).
SmoothCenterline(points, segments_per_span) ==
    /\ stage = "start"
    /\ ctrl' = points
    /\ centerline' = catmull_rom_chain(points, segments_per_span)
    /\ ribbon' = NoMesh
    /\ stage' = "curve"
    /\ UNCHANGED notRibbon

build_path_mesh(width) ==
    /\ stage = "curve"
    /\ ribbon' = [verts |-> PathVerts(centerline, RatDiv(width, Int2Rat(2))),
                  faces |-> FaceLoop(<<>>, 1, Len(centerline)),
                  by |-> "build_path_mesh"]
    /\ stage' = "built"
    /\ UNCHANGED <<ctrl, centerline>>
    /\ UNCHANGED notRibbon

build_banked_fairway(spiral_center, width) ==
    /\ stage = "curve"
    /\ ribbon' = [verts |-> BankedVerts(centerline, spiral_center,
                                        RatDiv(width, Int2Rat(2))),
                  faces |-> FaceLoop(<<>>, 1, Len(centerline)),
                  by |-> "_build_banked_fairway"]
    /\ stage' = "built"
    /\ UNCHANGED <<ctrl, centerline>>
    /\ UNCHANGED notRibbon

\* The hole builder returns; its locals are gone when the next one starts.
FinishHole ==
    /\ stage = "built"
    /\ ctrl' = <<>>
    /\ centerline' = <<>>
    /\ ribbon' = NoMesh
    /\ stage' = "start"
    /\ UNCHANGED notRibbon

NextRibbon ==
    \/ \E pts \in ControlLists, n \in 1 .. MaxSegments : SmoothCenterline(pts, n)
    \/ FinishHole
    \/ \E w \in WidthChoices : build_path_mesh(w)
    \/ \E c \in SpiralCenters, w \in WidthChoices : build_banked_fairway(c, w)

(***************************************************************************)
(* Rotation drivers: build_hole_5.py, build_eskdale_theme.py,              *)
(* build_holes_6_9.py.                                                     *)
(***************************************************************************)
FPS == 30
REVOLUTION_SECONDS == 4
REVOLUTION_FRAMES == FPS * REVOLUTION_SECONDS

\* The hole-5 windmill hub, the boot-mill waterwheel and the hole-9 spinner
\* pivots with spin_index 0 and 1.
DriverNames == {"H5_Windmill_Hub", "BootMill_Wheel", "Hole_09_Spinner_0_Pivot", "Hole_09_Spinner_1_Pivot"}

\* The literal 3.14159 of the expressions.
PiLiteral == Rat(314159, 100000)

\* The driver's expression string, evaluated with the variable frame.
DriverExpression(d, f) ==
    LET perFrame(n) == RatDiv(RatMul(Int2Rat(2), PiLiteral), Int2Rat(n))
    IN  CASE d = "H5_Windmill_Hub" -> RatMul(Int2Rat(f), perFrame(REVOLUTION_FRAMES))
          [] d = "BootMill_Wheel"  -> RatMul(Int2Rat(f), perFrame(180))
          [] d = "Hole_09_Spinner_0_Pivot"    -> RatMul(Int2Rat(f), perFrame(FPS * 2))
          [] d = "Hole_09_Spinner_1_Pivot"    -> RatMul(Int2Rat(-f), perFrame(FPS * 2))

\* Frames per revolution the scripts intend for each driver.
RevolutionFrames(d) ==
    CASE d = "H5_Windmill_Hub" -> REVOLUTION_FRAMES
      [] d = "BootMill_Wheel"  -> 180
      [] d \in {"Hole_09_Spinner_0_Pivot", "Hole_09_Spinner_1_Pivot"} -> FPS * 2

FrameChoices ==
    UNION { {f} \cup {f + RevolutionFrames(d) : d \in DriverNames} : f \in 0 .. MaxFrame }

Evaluate(ds, f) == [d \in ds |-> DriverExpression(d, f)]

InitDriver ==
    /\ drivers = {}
    /\ frame = 1
    /\ rotation = Evaluate({}, 1)
    /\ prev = [frame |-> 1, rotation |-> Evaluate({}, 1)]

\* A build script installs the driver: driver_add, the frame variable, the
\* expression.
driver_add(d) ==
    /\ d \notin drivers
    /\ drivers' = drivers \cup {d}
    /\ rotation' = Evaluate(drivers \cup {d}, frame)
    /\ UNCHANGED <<frame, prev>>
    /\ UNCHANGED notDriver

\* The scene moves to frame f and the host re-evaluates every driver.
FrameChange(f) ==
    /\ f # frame
    /\ prev' = [frame |-> frame, rotation |-> rotation]
    /\ frame' = f
    /\ rotation' = Evaluate(drivers, f)
    /\ UNCHANGED drivers
    /\ UNCHANGED notDriver

NextDriver ==
    \/ \E d \in DriverNames : driver_add(d)
    \/ \E f \in FrameChoices : FrameChange(f)

(***************************************************************************)
(* Claims about the relay.                                                 *)
(***************************************************************************)
\* C3: every send_command call writes exactly one JSON command to its
\* connection and reads exactly one reply, after the command; at no time is
\* more than one request in flight.
C3_OneRequestInFlight ==
    \* requests written to the call's connection and not yet answered
    LET inFlight == Len(wire) - conn.recvd
    IN
    /\ Len(wire) <= 1
    /\ conn.recvd <= Len(wire)
    /\ inFlight \in {0, 1}
    /\ inFlight = 1 => pc \in {"recv", "raised"}
    /\ pc \in {"close", "check", "returned"} => Len(wire) = 1 /\ conn.recvd = 1
    /\ \A i \in 1 .. Len(wire) : wire[i].valid /\ wire[i].obj.tool = call.tool

C3_Witness == pc = "returned" /\ ncalls = 2 /\ Len(wire) = 1 /\ conn.recvd = 1

\* C4 as stated: the RuntimeError's message is the remote error string itself.
C4_MessageIsRemoteString ==
    (outcome.exc = "RuntimeError" /\ "error" \in DOMAIN result)
        => outcome.msg = result.error

\* C4 amended: a reply with status "error" makes send_command raise
\* RuntimeError, and only such a reply does; the message is "Blender error: "
\* followed by the reply's error member verbatim, or by "unknown" when the
\* reply has no error member.
C4_PrefixedMessage ==
    /\ (pc \in {"returned", "raised"} /\ DictGet(result, "status", "ok") = "error")
          => /\ outcome.kind = "raise"
             /\ outcome.exc = "RuntimeError"
             /\ outcome.msg = "Blender error: " \o
                    (IF "error" \in DOMAIN result THEN result.error ELSE "unknown")
    /\ outcome.exc = "RuntimeError" => DictGet(result, "status", "ok") = "error"

C4_Witness ==
    /\ outcome.exc = "RuntimeError"
    /\ DictGet(result, "error", "") = "name 'x' is not defined"
    /\ outcome.msg = "Blender error: name 'x' is not defined"

\* C5: the timeout given to the call bounds the wait: a recv that gets no
\* reply ends, and it ends by raising exactly when the timeout has elapsed.
C5_TimeoutEndsTheCall ==
    /\ [](outcome.exc = "WebSocketTimeoutException"
            => pc = "raised" /\ inbox = <<>> /\ waited = call.timeout)
    /\ [](pc = "recv" => waited <= call.timeout)
    /\ (pc = "recv") ~> (pc # "recv")

C5_Witness ==
    /\ pc = "raised"
    /\ outcome.exc = "WebSocketTimeoutException"
    /\ waited = call.timeout
    /\ call.timeout = MaxTimeout

\* C19 as stated: every request has the members id, tool and params, also
\* for a call made without parameters.
C19_AlwaysParams ==
    \A i \in 1 .. Len(wire) :
        wire[i].valid /\ DOMAIN wire[i].obj = {"id", "tool", "params"}

\* C19 amended: every request send_command writes is one JSON object whose id
\* is the millisecond clock reading as a string and whose tool is the
\* command name; it has a params member, equal to the caller's dict, exactly
\* when the caller passed a non-empty dict, and no params member when the
\* caller passed None or {}.
C19_ParamsOnlyWhenGiven ==
    \A i \in 1 .. Len(wire) :
        /\ wire[i].valid
        /\ {"id", "tool"} \subseteq DOMAIN wire[i].obj
        /\ wire[i].obj.id \in {ToString(now) : now \in ClockReadings}
        /\ wire[i].obj.tool = call.tool
        /\ IF ~call.params.isNone /\ call.params.dict # EmptyDict
           THEN /\ DOMAIN wire[i].obj = {"id", "tool", "params"}
                /\ wire[i].obj.params = call.params.dict
           ELSE DOMAIN wire[i].obj = {"id", "tool"}

\* A request of a call made without parameters, as get_scene_info makes it,
\* is on the connection and has no params member.
C19_Witness ==
    /\ call.params.isNone
    /\ Len(wire) = 1
    /\ DOMAIN wire[1].obj = {"id", "tool"}
    /\ wire[1].obj = [id |-> "1234", tool |-> call.tool]

\* C21: the endpoint a send_command call connects to is the value of the
\* environment variable BLENDER_WS_URL, or ws://127.0.0.1:8765 when the
\* variable is unset.
C21_EndpointFromEnvironment ==
    conn.open =>
        conn.url = (IF environ = "unset" THEN "ws://127.0.0.1:8765" ELSE environ)

\* A call has connected under an environment that sets the variable.
C21_Witness ==
    /\ conn.open
    /\ environ = "ws://10.0.0.5:9000"
    /\ conn.url = "ws://10.0.0.5:9000"
    /\ pc = "send"

\* C24: send_command never returns an error reply as a successful result: a
\* reply that has an error member, with or without a status member, makes
\* the call raise.
C24_ErrorReplyRaises ==
    (pc \in {"returned", "raised"} /\ conn.recvd = 1 /\ "error" \in DOMAIN result)
        => outcome.kind = "raise"

\* The reply {"error": "unknown tool"} was returned to the caller as the
\* result of the call.
C24_Witness ==
    /\ pc = "returned"
    /\ result = [error |-> "unknown tool"]
    /\ outcome.kind = "return"
    /\ outcome.value = [error |-> "unknown tool"]

\* C25: every connection send_command opens is closed by the time the call
\* ends, whether the call returns or raises.
C25_ClosedWhenCallEnds ==
    pc \in {"returned", "raised"} => ~conn.open

\* The call has ended with the JSONDecodeError of a reply that is not JSON
\* and its connection is still open.
C25_Witness ==
    /\ pc = "raised"
    /\ outcome.exc = "JSONDecodeError"
    /\ conn.open
    /\ conn.recvd = 1

(***************************************************************************)
(* Claims about the terrain cuts.                                          *)
(***************************************************************************)
\* Vertices the last cut raised, lowered.
Raised_(i) == RatLess(lastCut.before[i], terrain[i].z)
Lowered(i) == RatLess(terrain[i].z, lastCut.before[i])

\* Original vertices within normalized elliptical distance 1.0 of the last cut.
InsideLastCut ==
    { i \in DOMAIN lastCut.before :
        Inside(EllipseDist(terrain[i].x, terrain[i].y,
                           lastCut.cx, lastCut.cy, lastCut.rx, lastCut.ry)) }

\* C2: after any of the four elliptical cuts no vertex is higher than it was
\* before the cut, whatever its height and the target elevation.
C2_NoVertexRaised == lastCut.op # "none" => \A i \in DOMAIN lastCut.before : ~Raised_(i)

\* cut_terrain and cut_terrain_for_golf raise a vertex that lies below the
\* target; cut_mesh and depress_surrounding_terrain never do.
C2_Witness ==
    /\ lastCut.op = "cut_terrain"
    /\ \E i \in DOMAIN lastCut.before :
          lastCut.before[i] = Zero /\ terrain[i].z = One

\* C6 as stated: the count a cut reports as modified is the number of
\* original vertices at normalized elliptical distance < 1.0.
C6_CountIsInsideCount == lastCut.op # "none" => lastCut.modified = Cardinality(InsideLastCut)

\* C6 amended: the reported count is the number of vertices at distance < 1.0
\* for cut_terrain; for cut_mesh and depress_surrounding_terrain it is the
\* number of those vertices the cut lowered, for cut_terrain_for_golf the
\* number of those whose height changed; it never exceeds the number of
\* vertices at distance < 1.0, and vertices at distance >= 1.0 keep their height.
C6_CountByOperation ==
    lastCut.op # "none" =>
      /\ lastCut.op = "cut_terrain"
            => lastCut.modified = Cardinality(InsideLastCut)
      /\ lastCut.op \in {"cut_mesh", "depress_surrounding_terrain"}
            => /\ lastCut.modified = Cardinality({i \in InsideLastCut : Lowered(i)})
               /\ \A i \in InsideLastCut : ~Raised_(i)
      /\ lastCut.op = "cut_terrain_for_golf"
            => lastCut.modified = Cardinality({i \in InsideLastCut : terrain[i].z # lastCut.before[i]})
      /\ lastCut.modified <= Cardinality(InsideLastCut)
      /\ \A i \in DOMAIN lastCut.before :
            terrain[i].z # lastCut.before[i] => i \in InsideLastCut

C6_Witness ==
    /\ lastCut.op = "cut_mesh"
    /\ Cardinality(InsideLastCut) = 3
    /\ lastCut.modified = 1
    /\ \E i \in InsideLastCut : Lowered(i)

\* C23: a cut changes nothing in the terrain mesh but the Z coordinate of
\* vertices at normalized elliptical distance < 1.0 from the cut centre:
\* vertices at distance >= 1.0 keep their position, no vertex's X or Y
\* changes, and no vertex is added or removed.
C23_OnlyInsideHeightsChange ==
    [][ncuts' = ncuts + 1 =>
         /\ DOMAIN terrain' = DOMAIN terrain
         /\ \A i \in DOMAIN terrain :
               /\ terrain'[i].x = terrain[i].x
               /\ terrain'[i].y = terrain[i].y
               /\ ~RatLess(EllipseDist(terrain[i].x, terrain[i].y, lastCut'.cx,
                                       lastCut'.cy, lastCut'.rx, lastCut'.ry), One)
                     => terrain'[i] = terrain[i]]_vars

\* cut_terrain has run over a mesh with vertices on both sides of
\* the ellipse: it changed the height of one within it and left those
\* outside at their heights.
C23_Witness ==
    /\ lastCut.op = "cut_terrain"
    /\ Len(terrain) = NVerts
    /\ \E i \in DOMAIN lastCut.before :
          /\ RatLess(EllipseDist(terrain[i].x, terrain[i].y, lastCut.cx, lastCut.cy,
                                 lastCut.rx, lastCut.ry), One)
          /\ terrain[i].z # lastCut.before[i]
    /\ \E i \in DOMAIN lastCut.before :
          /\ RatLess(One, EllipseDist(terrain[i].x, terrain[i].y, lastCut.cx, lastCut.cy,
                                      lastCut.rx, lastCut.ry))
          /\ terrain[i].z = lastCut.before[i]

(***************************************************************************)
(* Claims about the splines and the ribbon meshes.                         *)
(***************************************************************************)
\* C7: a ribbon mesh built from a centerline by build_path_mesh or
\* _build_banked_fairway has len(centerline) - 1 faces, each of exactly 4
\* vertices of the mesh.
C7_RibbonFaces ==
    stage = "built" =>
      /\ Len(ribbon.faces) = Len(centerline) - 1
      /\ \A k \in DOMAIN ribbon.faces :
            /\ Len(ribbon.faces[k]) = 4
            /\ Cardinality(Handles(ribbon.faces[k])) = 4
            /\ Handles(ribbon.faces[k]) \subseteq DOMAIN ribbon.verts

C7_Witness ==
    /\ stage = "built"
    /\ ribbon.by = "_build_banked_fairway"
    /\ Len(centerline) = 5
    /\ Len(ribbon.faces) = 4
    /\ Len(ribbon.verts) = 10
    /\ \E h \in DOMAIN ribbon.verts : ribbon.verts[h].z = RatAdd(One, BANK)

\* C8: for a control-point list of length >= 2 the chain's first element is
\* the first control point and its last element is the last control point.
C8_ChainEndpoints ==
    (stage \in {"curve", "built"} /\ Len(ctrl) >= 2) =>
      /\ Len(centerline) >= 2
      /\ centerline[1] = ctrl[1]
      /\ centerline[Len(centerline)] = ctrl[Len(ctrl)]

C8_Witness ==
    /\ stage = "curve"
    /\ Len(ctrl) = 3
    /\ ctrl[1] # ctrl[3]
    /\ Len(centerline) = 5
    /\ centerline[2] \notin ControlPoints
    /\ centerline[1] = ctrl[1]
    /\ centerline[5] = ctrl[3]

\* C29: for n >= 2 control points and segments_per_span = s >= 1 the chain
\* has exactly (n - 1) * s + 1 points, and its point at index k * s is the
\* k-th control point for every k from 0 to n - 1 (indices from 0 as in the
\* code; sequences here count from 1).
C29_ChainThroughControlPoints ==
    (stage \in {"curve", "built"} /\ Len(ctrl) >= 2) =>
        \E s \in 1 .. MaxSegments :
            /\ centerline = catmull_rom_chain(ctrl, s)
            /\ Len(centerline) = (Len(ctrl) - 1) * s + 1
            /\ \A k \in 0 .. Len(ctrl) - 1 : centerline[k * s + 1] = ctrl[k + 1]

\* Three control points smoothed with two segments per span: five points,
\* the middle one the second control point, with interpolated points
\* between.
C29_Witness ==
    /\ stage = "curve"
    /\ Len(ctrl) = 3
    /\ Len(centerline) = 5
    /\ ctrl[2] \notin {ctrl[1], ctrl[3]}
    /\ centerline[3] = ctrl[2]
    /\ centerline[2] \notin ControlPoints
    /\ centerline[4] \notin ControlPoints

(***************************************************************************)
(* Claims about the rotation drivers.                                      *)
(***************************************************************************)
\* Lower bound of 2 * pi: pi > 3.141592.
TwoPiLow == Rat(6283184, 1000000)

\* Two rational numbers of radians are the same angle modulo 2 * pi only if
\* they are equal: pi is irrational, so no non-zero rational is a multiple
\* of 2 * pi.
SameAngle(a, b) == a = b

\* The drivers whose revolution the last frame change spanned.
Revolved ==
    { d \in DOMAIN prev.rotation : frame = prev.frame + RevolutionFrames(d) }

\* C9: a rotation driver's expression at frame F and at frame
\* F + revolution_frames gives the same angle modulo 2 * pi.
C9_SameAngleAfterRevolution ==
    \A d \in Revolved : SameAngle(rotation[d], prev.rotation[d])

\* Over one revolution the windmill's expression advances by 2 * 3.14159,
\* strictly between 0 and 2 * pi.
C9_Witness ==
    /\ "H5_Windmill_Hub" \in Revolved
    /\ LET advance == RatSub(rotation["H5_Windmill_Hub"], prev.rotation["H5_Windmill_Hub"])
       IN  /\ advance = Rat(628318, 100000)
           /\ RatLess(Zero, advance)
           /\ RatLess(advance, TwoPiLow)

(***************************************************************************)
(* Scene data: the objects, materials and collections of bpy.data, as the  *)
(* build scripts create, replace and look them up.  A script is            *)
(* represented by the first objects it builds with each of its helpers;    *)
(* its other objects go through the same helpers.                          *)
(***************************************************************************)
\* d[key] = value
DictSet(d, key, value) == [k \in DOMAIN d \cup {key} |-> IF k = key THEN value ELSE d[k]]

\* d.pop(key, None)
DictDel(d, key) == [k \in DOMAIN d \ {key} |-> d[k]]

\* The name the host gives a new datablock: the requested one, or the first
\* free of "name.001", "name.002", ... when that one is taken.
UniqueName(name, taken) ==
    IF name \notin taken THEN name
    ELSE LET Suffixed(k) == name \o ".00" \o ToString(k)
             first == CHOOSE i \in 1 .. (MaxRuns + 1) :
                          /\ Suffixed(i) \notin taken
                          /\ \A j \in 1 .. (i - 1) : Suffixed(j) \in taken
         IN Suffixed(first)

EmptyScene == [objects |-> EmptyDict, materials |-> EmptyDict, collections |-> {}]

\* The rotation driver of an object: its expression and its variables.
NoDriver == [expression |-> "", variables |-> <<>>]

\* bpy.data.objects.new(name, data), with the material slot and the
\* collection its caller gives the new object ("" for none); a new object
\* has no driver.
objects_new(sc, name, mat, coll) ==
    [sc EXCEPT !.objects = DictSet(@, UniqueName(name, DOMAIN @),
                                   [mat |-> mat, coll |-> coll, drv |-> NoDriver])]

\* bpy.data.materials.new(name) and the node setup its caller gives it.
materials_new(sc, name, look) ==
    [sc EXCEPT !.materials = DictSet(@, UniqueName(name, DOMAIN @), look)]

\* ---- build_hole_5.py ----
Hole5Collections ==
    {"Hole_5", "H5_Fairway", "H5_Green", "H5_Borders", "H5_Obstacles", "H5_Decorations"}

\* build_tee_area and build_green: name, material, sub-collection.
Hole5Steps ==
    << [name |-> "H5_Tee", mat |-> "ArtificialTurf", coll |-> "H5_Fairway"],
       [name |-> "H5_Green", mat |-> "PuttingGreen", coll |-> "H5_Green"] >>

\* A collection lookup that creates what it does not find.
get_collection_creating(sc, name) ==
    [scene |-> [sc EXCEPT !.collections = @ \cup {name}], status |-> "ok", saved |-> FALSE]

get_collection(sc, name) ==
    [scene |-> sc, status |-> IF name \in sc.collections THEN "ok" ELSE "RuntimeError",
     saved |-> FALSE]

H5_get_material(sc, name) ==
    IF name \in DOMAIN sc.materials THEN sc ELSE materials_new(sc, name, "principled_default")

remove_if_exists(sc, name) == [sc EXCEPT !.objects = DictDel(@, name)]

assign_material(sc, obj, mat_name) ==
    [H5_get_material(sc, mat_name) EXCEPT !.objects[obj].mat = mat_name]

H5_link_to_collection(sc, obj, col_name) ==
    LET col == get_collection(sc, col_name)
    IN  IF col.status = "ok"
        THEN [col EXCEPT !.scene.objects[obj].coll = col_name]
        ELSE col

\* One builder: remove_if_exists, create_object_from_bmesh, assign_material,
\* link_to_collection.
build_tee_area(sc, step) ==
    LET removed == remove_if_exists(sc, step.name)
        created == objects_new(removed, step.name, "", "")
        assigned == assign_material(created, step.name, step.mat)
    IN  H5_link_to_collection(assigned, step.name, step.coll)

\* The builders in order; an exception ends the run.
RECURSIVE H5_builders(_, _)
H5_builders(sc, steps) ==
    IF steps = <<>> THEN [scene |-> sc, status |-> "ok", saved |-> FALSE]
    ELSE LET built == build_tee_area(sc, Head(steps))
         IN  IF built.status = "ok" THEN H5_builders(built.scene, Tail(steps)) ELSE built

build_hole_5(sc) ==
    H5_builders([sc EXCEPT !.collections = @ \cup Hole5Collections], Hole5Steps)

\* ---- hole_builder_utils.py and build_holes_2_4.py ----
EnsuredMaterials ==
    {"ArtificialTurf", "PuttingGreen", "StoneBorder", "NaturalStone", "WoodRail",
     "WoodDark", "Water", "DirtSoil", "PathwayConcrete", "CupBlack", "MetalPin",
     "RedPaint", "GullyDirt"}

\* get_or_create_material for every required name, with its fallback colour.
ensure_materials(sc) ==
    [sc EXCEPT !.materials =
        [m \in DOMAIN @ \cup EnsuredMaterials |->
            IF m \in DOMAIN @ THEN @[m] ELSE "principled_coloured"]]

ensure_collection(sc, name) == [sc EXCEPT !.collections = @ \cup {name}]

\* remove_existing, objects.new, link_to_collection (which ensures the
\* collection), and the material only if materials.get finds it.
create_mesh_object(sc, name, collection_name, material_name) ==
    LET removed == [sc EXCEPT !.objects = DictDel(@, name)]
        mat == IF material_name \in DOMAIN sc.materials THEN material_name ELSE ""
    IN  objects_new(ensure_collection(removed, collection_name), name, mat, collection_name)

Hole2Collections ==
    {"Hole_2", "Hole_3", "Hole_4",
     "H2_Fairway", "H2_Green", "H2_Borders", "H2_Obstacles", "H2_Decorations"}

Hole2Steps ==
    << [name |-> "H2_Fairway", mat |-> "ArtificialTurf", coll |-> "H2_Fairway"],
       [name |-> "H2_Borders", mat |-> "StoneBorder", coll |-> "H2_Borders"] >>

\* main: ensure_materials, ensure_collection, then the builders.
build_holes_2_4(sc) ==
    LET ready == [ensure_materials(sc) EXCEPT !.collections = @ \cup Hole2Collections]
        fairway == create_mesh_object(ready, "H2_Fairway", "H2_Fairway", "ArtificialTurf")
    IN  [scene |-> create_mesh_object(fairway, "H2_Borders", "H2_Borders", "StoneBorder"),
         status |-> "ok", saved |-> FALSE]

\* ---- build_holes_6_9.py ----
H69_get_material(sc, name) ==
    IF name \in DOMAIN sc.materials THEN sc ELSE materials_new(sc, name, "principled_gray")

get_or_create_collection(sc, name) == [sc EXCEPT !.collections = @ \cup {name}]

\* An object that exists is kept as it is; otherwise objects.new,
\* get_material and link_to_collection.
create_sloped_fairway(sc, name, material_name, collection_name) ==
    IF name \in DOMAIN sc.objects THEN sc
    ELSE objects_new(get_or_create_collection(H69_get_material(sc, material_name),
                                              collection_name),
                     name, material_name, collection_name)

Hole6Collections == {"H6_Fairway", "H6_Green", "H6_Borders", "H6_Obstacles", "H6_Decorations"}

Hole6Steps ==
    << [name |-> "Hole_06_Fairway_Approach", mat |-> "ArtificialTurf", coll |-> "H6_Fairway"] >>

\* primitive_cylinder_add, named and given its material, unless an object of
\* that name exists.
create_cylinder(sc, name, material_name, collection_name) ==
    IF name \in DOMAIN sc.objects THEN sc
    ELSE objects_new(get_or_create_collection(H69_get_material(sc, material_name),
                                              collection_name),
                     name, material_name, collection_name)

\* An empty that exists is kept as it is; otherwise objects.new and
\* link_to_collection.
create_empty(sc, name, collection_name) ==
    IF name \in DOMAIN sc.objects THEN sc
    ELSE objects_new(get_or_create_collection(sc, collection_name), name, "", collection_name)

\* The post (create_cylinder), the pivot (create_empty) and the blades are
\* made unless they exist.  The driver section runs in either case: it
\* calls driver_add on the pivot, which hands back the driver the pivot
\* already has if there is one, adds a variable named "frame" to it and
\* sets its expression.
build_spinner(sc, name, collection_name, spin_index) ==
    LET post_name  == name \o "_Post"
        pivot_name == name \o "_Pivot"
        blade_group_name == name \o "_Blades"
        post   == create_cylinder(sc, post_name, "MetalPin", collection_name)
        pivot  == create_empty(post, pivot_name, collection_name)
        blades == IF blade_group_name \in DOMAIN pivot.objects THEN pivot
                  ELSE objects_new(get_or_create_collection(
                                       H69_get_material(pivot, "WindmillBlade"),
                                       collection_name),
                                   blade_group_name, "WindmillBlade", collection_name)
    IN  [blades EXCEPT !.objects[pivot_name].drv =
            [expression |-> IF spin_index % 2 = 0
                            THEN "frame * (2 * 3.14159 / (30 * 2))"
                            ELSE "-frame * (2 * 3.14159 / (30 * 2))",
             variables |-> Append(@.variables, "frame")]]

Hole9Collections == {"H9_Fairway", "H9_Green", "H9_Borders", "H9_Obstacles", "H9_Decorations"}

\* main: build_hole_6 (its sub-collections, the approach fairway) ...
\* build_hole_9 (its sub-collections, the first spinner).
build_holes_6_9(sc) ==
    LET ready == [sc EXCEPT !.collections = @ \cup Hole6Collections]
        hole6 == create_sloped_fairway(ready, "Hole_06_Fairway_Approach",
                                       "ArtificialTurf", "H6_Fairway")
        hole9 == [hole6 EXCEPT !.collections = @ \cup Hole9Collections]
    IN  [scene |-> build_spinner(hole9, "Hole_09_Spinner_0", "H9_Obstacles", 0),
         status |-> "ok", saved |-> FALSE]

\* ---- add_wildlife.py ----
make_material(sc, name) == materials_new(sc, name, "principled_coloured")

make_sphere(sc, name, col, mat) == objects_new(sc, name, mat, col)

\* The collection, the squirrel materials, the first squirrel's body and
\* tail, the pony's material and body; bpy.ops.wm.save_mainfile() ends it.
add_wildlife(sc) ==
    LET wild == get_or_create_collection(sc, "Wildlife")
        sq_body_mat == UniqueName("RedSquirrel_Body", DOMAIN wild.materials)
        sq_tail_mat == UniqueName("RedSquirrel_Tail", DOMAIN wild.materials)
        pony_mat == UniqueName("FellPony_Mat", DOMAIN wild.materials)
        mats == make_material(make_material(wild, "RedSquirrel_Body"), "RedSquirrel_Tail")
        body == make_sphere(mats, "RedSquirrel_1_Body", "Wildlife", sq_body_mat)
        tail == make_sphere(body, "RedSquirrel_1_Tail", "Wildlife", sq_tail_mat)
        pony == make_material(tail, "FellPony_Mat")
    IN  [scene |-> make_sphere(pony, "FellPony_Body", "Wildlife", pony_mat), status |-> "ok",
         saved |-> TRUE]

\* ---- terrain_and_place.py ----
create_terrain_mesh(sc) == objects_new(sc, "RealTerrain", "", "RealTerrain")

\* The suns of the scene are removed before the new one is added.
setup_lighting(sc) == objects_new(remove_if_exists(sc, "TerrainSun"), "TerrainSun", "", "")

\* The collection, the terrain and its material, the first retaining wall,
\* the sun and the camera; bpy.ops.wm.save_as_mainfile(...) ends it.
terrain_and_place(sc) ==
    LET tcol == get_or_create_collection(sc, "RealTerrain")
        tobj == materials_new(create_terrain_mesh(tcol), "RealTerrain_PBR", "principled_coloured")
        wall_mat == UniqueName("RetainingWall_Mat", DOMAIN tobj.materials)
        walls == objects_new(materials_new(tobj, "RetainingWall_Mat", "principled_coloured"),
                             "RetainingWall_0", wall_mat, "RealTerrain")
    IN  [scene |-> objects_new(setup_lighting(walls), "TerrainCamera", "", ""),
         status |-> "ok", saved |-> TRUE]

\* ---- blender_ws.py ----
clear_scene == [scene |-> EmptyScene, status |-> "ok", saved |-> FALSE]

\* blender_ws.create_collection(name, parent), as the host executes it:
\* collections.new(name) always makes a collection, under a new name when
\* the name is taken; bpy.data.collections[parent] then raises KeyError for
\* a parent that does not exist ("" stands for parent=None).
create_collection(sc, name, parent) ==
    [scene |-> [sc EXCEPT !.collections = @ \cup {UniqueName(name, @)}],
     status |-> IF parent = "" \/ parent \in sc.collections THEN "ok" ELSE "KeyError",
     saved |-> FALSE]

\* ---- runs ----
NoRun ==
    [op |-> "none", status |-> "ok", missingMats |-> {}, missingColls |-> {},
     names |-> {}, before |-> EmptyDict, again |-> FALSE, saved |-> FALSE]

\* A scene with no objects yet, some of the materials authored and some of
\* the collections made by hand.
InitScene ==
    /\ scene \in {[objects |-> EmptyDict, materials |-> [m \in M |-> "authored"], collections |-> C] :
                    M \in SUBSET {"ArtificialTurf", "StoneBorder"},
                    C \in SUBSET {"H5_Fairway", "H2_Fairway"}}
    /\ last = NoRun
    /\ nruns = 0

\* A run of op on the open scene, needing the materials mats and the
\* collections colls; isScript tells a whole script from one helper.
Ran(op, isScript, res, mats, colls) ==
    /\ nruns < MaxRuns
    /\ scene' = res.scene
    /\ last' = [op |-> op, status |-> res.status,
                missingMats |-> mats \ DOMAIN scene.materials,
                missingColls |-> colls \ scene.collections,
                names |-> DOMAIN scene.objects,
                before |-> scene.objects,
                again |-> isScript /\ last.op = op /\ last.status = "ok",
                saved |-> res.saved]
    /\ nruns' = nruns + 1
    /\ UNCHANGED notScene

RunBuildHole5 ==
    Ran("build_hole_5.py", TRUE, build_hole_5(scene), {"ArtificialTurf", "PuttingGreen"}, Hole5Collections)

RunBuildHoles24 ==
    Ran("build_holes_2_4.py", TRUE, build_holes_2_4(scene), {"ArtificialTurf", "StoneBorder"}, Hole2Collections)

RunBuildHoles69 ==
    Ran("build_holes_6_9.py", TRUE, build_holes_6_9(scene),
        {"ArtificialTurf", "MetalPin", "WindmillBlade"}, Hole6Collections \cup Hole9Collections)

RunAddWildlife == Ran("add_wildlife.py", TRUE, add_wildlife(scene), {}, {"Wildlife"})

RunTerrainAndPlace ==
    Ran("terrain_and_place.py", TRUE, terrain_and_place(scene), {}, {"RealTerrain"})

\* One builder of build_hole_5.py called on its own.
CallBuilder ==
    \E i \in DOMAIN Hole5Steps :
        LET step == Hole5Steps[i]
        IN  Ran("build_hole_5.build_tee_area", FALSE, build_tee_area(scene, step),
                {step.mat}, {step.coll})

CallCreateMeshObject ==
    \E i \in DOMAIN Hole2Steps :
        LET step == Hole2Steps[i]
        IN  Ran("hole_builder_utils.create_mesh_object", FALSE,
                [scene |-> create_mesh_object(scene, step.name, step.coll, step.mat),
                 status |-> "ok", saved |-> FALSE],
                {step.mat}, {step.coll})

CallCreateSlopedFairway ==
    \E i \in DOMAIN Hole6Steps :
        LET step == Hole6Steps[i]
        IN  Ran("build_holes_6_9.create_sloped_fairway", FALSE,
                [scene |-> create_sloped_fairway(scene, step.name, step.mat, step.coll),
                 status |-> "ok", saved |-> FALSE],
                {step.mat}, {step.coll})

ClearScene == Ran("blender_ws.clear_scene", FALSE, clear_scene, {}, {})

CallCreateCollection ==
    \E name \in {"Hole_5", "Wildlife"}, parent \in {"", "Hole_5"} :
        Ran("blender_ws.create_collection", FALSE, create_collection(scene, name, parent),
            {}, {parent} \ {""})

NextScene ==
    \/ RunBuildHole5
    \/ RunBuildHoles24
    \/ RunBuildHoles69
    \/ RunAddWildlife
    \/ RunTerrainAndPlace
    \/ CallBuilder
    \/ CallCreateMeshObject
    \/ CallCreateSlopedFairway
    \/ ClearScene
    \/ CallCreateCollection

(***************************************************************************)
(* Claims about the scene data.                                            *)
(***************************************************************************)
\* C1: for every build script, running it a second time straight after a
\* first run leaves the set of object names (and so the object count) that
\* the first run left.
C1_RerunKeepsNames == last.again => DOMAIN scene.objects = last.names

\* add_wildlife.py has run twice and the second squirrel body got a new name.
C1_Witness ==
    /\ last.again
    /\ last.op = "add_wildlife.py"
    /\ {"RedSquirrel_1_Body", "RedSquirrel_1_Body.001"} \subseteq DOMAIN scene.objects

C13_ScriptSavesAtEnd ==
    (last.op \in {"build_hole_5.py", "build_holes_2_4.py", "build_holes_6_9.py",
                  "add_wildlife.py", "terrain_and_place.py"} /\ last.status = "ok")
        => last.saved

\* build_hole_5.py has built its tee and returned without saving.
C13_Witness ==
    /\ last.op = "build_hole_5.py"
    /\ last.status = "ok"
    /\ "H5_Tee" \in DOMAIN scene.objects
    /\ ~last.saved

\* C14: there is one material per name a script asks for (the host never
\* had to tell a second one apart with a ".001" suffix), and every object
\* that carries a material carries one of those.
C14_OneMaterialPerName ==
    /\ \A m \in DOMAIN scene.materials :
           \A k \in 1 .. (MaxRuns + 1) :
               (m \o ".00" \o ToString(k)) \notin DOMAIN scene.materials
    /\ \A o \in DOMAIN scene.objects :
           scene.objects[o].mat # "" => scene.objects[o].mat \in DOMAIN scene.materials

\* Two runs of add_wildlife.py: each squirrel body has a material of its own.
C14_Witness ==
    /\ {"RedSquirrel_1_Body", "RedSquirrel_1_Body.001"} \subseteq DOMAIN scene.objects
    /\ scene.objects["RedSquirrel_1_Body"].mat = "RedSquirrel_Body"
    /\ scene.objects["RedSquirrel_1_Body.001"].mat = "RedSquirrel_Body.001"

\* C15: however often a collection is requested by a name, the scene holds
\* one collection for that name: the host never had to tell a second one
\* apart with a ".001" suffix.
C15_OneCollectionPerName ==
    \A c \in scene.collections :
        \A k \in 1 .. (MaxRuns + 1) : (c \o ".00" \o ToString(k)) \notin scene.collections

\* create_collection("Wildlife") was asked for twice.
C15_Witness ==
    /\ last.op = "blender_ws.create_collection"
    /\ last.status = "ok"
    /\ {"Wildlife", "Wildlife.001"} \subseteq scene.collections

\* C16: a run of build_holes_6_9.py, whose builders keep an object that
\* exists under their target name, leaves every object that was there before
\* the run as it was: material slot, collection and driver.
C16_KeptObjectUntouched ==
    last.op = "build_holes_6_9.py" =>
        \A o \in DOMAIN last.before \cap DOMAIN scene.objects :
            scene.objects[o] = last.before[o]

\* The second run kept the spinner's pivot and gave its driver a second
\* variable.
C16_Witness ==
    /\ last.op = "build_holes_6_9.py"
    /\ "Hole_09_Spinner_0_Pivot" \in DOMAIN last.before
    /\ "Hole_09_Spinner_0_Pivot" \in DOMAIN scene.objects
    /\ Len(last.before["Hole_09_Spinner_0_Pivot"].drv.variables) = 1
    /\ Len(scene.objects["Hole_09_Spinner_0_Pivot"].drv.variables) = 2

(***************************************************************************)
(* Face insertion in the mesh builders.  Whether the host accepts a face   *)
(* (bm.faces.new returns) or refuses it (bm.faces.new raises ValueError)   *)
(* is the host's answer to each call; the builders differ in what they do  *)
(* with a refusal.                                                         *)
(***************************************************************************)
\* Builders whose face loop wraps bm.faces.new in try/except ValueError.
GuardedBuilders == {"build_path_mesh", "build_border_rail"}

\* The builder whose face loop calls bm.faces.new bare.
BareBuilders == {"create_sloped_fairway"}

\* Faces a builder tries for a path of rows sections: one quad per section
\* (build_path_mesh, create_sloped_fairway), four per section and side
\* (build_border_rail with side='both').
FacesTried(builder, rows) == IF builder = "build_border_rail" THEN 8 * rows ELSE rows

NoBuild ==
    [builder |-> "none", n |-> 0, i |-> 0, made |-> 0, refused |-> 0,
     out |-> <<>>, status |-> "idle"]

InitBuild == build = NoBuild

\* The builder is called and has made its vertices; nothing is printed.
StartBuild(builder, rows) ==
    /\ build.status # "building"
    /\ build' = [builder |-> builder, n |-> FacesTried(builder, rows), i |-> 0,
                 made |-> 0, refused |-> 0, out |-> <<>>, status |-> "building"]
    /\ UNCHANGED notBuild

\* try: bm.faces.new([...])  except ValueError: pass
TryFace(accepted) ==
    /\ build.status = "building"
    /\ build.builder \in GuardedBuilders
    /\ build.i < build.n
    /\ build' = IF accepted
                THEN [build EXCEPT !.i = @ + 1, !.made = @ + 1]
                ELSE [build EXCEPT !.i = @ + 1, !.refused = @ + 1]
    /\ UNCHANGED notBuild

\* bm.faces.new([l0, l1, r1, r0]): a ValueError leaves the function.
NewFace(accepted) ==
    /\ build.status = "building"
    /\ build.builder \in BareBuilders
    /\ build.i < build.n
    /\ build' = IF accepted
                THEN [build EXCEPT !.i = @ + 1, !.made = @ + 1]
                ELSE [build EXCEPT !.refused = @ + 1, !.status = "ValueError"]
    /\ UNCHANGED notBuild

\* bm.to_mesh(...), bm.free(): the builder returns.
FinishBuild ==
    /\ build.status = "building"
    /\ build.i = build.n
    /\ build' = [build EXCEPT !.status = "done"]
    /\ UNCHANGED notBuild

NextBuild ==
    \/ \E builder \in GuardedBuilders \cup BareBuilders, rows \in 1 .. MaxRows :
           StartBuild(builder, rows)
    \/ \E accepted \in BOOLEAN : TryFace(accepted)
    \/ \E accepted \in BOOLEAN : NewFace(accepted)
    \/ FinishBuild

(***************************************************************************)
(* Claims about face insertion.                                            *)
(***************************************************************************)
\* C11: whenever a face insertion has failed, the builder has printed a line
\* for each failure and has not raised: it is still building or is done.
C11_FailureCaughtAndLogged ==
    build.refused > 0 => Len(build.out) >= build.refused /\ build.status # "ValueError"

\* create_sloped_fairway made one face, was refused the next and raised.
C11_Witness ==
    /\ build.builder = "create_sloped_fairway"
    /\ build.made = 1
    /\ build.refused = 1
    /\ build.status = "ValueError"

(***************************************************************************)
(* The network fetch scripts: the SRTM tile (download_srtm, load_srtm) and *)
(* the map tiles (download_satellite_tiles, download_osm_tiles).           *)
(***************************************************************************)
FetchScripts == {"fetch_dem.py", "fetch_fairfield.py"}

HgtPath == "N54W004.hgt"

\* What requests.get comes back with: a response with its status code, or
\* an exception raised by the transport.
Response(code) == [exc |-> "", status_code |-> code]
ReplyChoices ==
    {Response(200), Response(404), Response(503),
     [exc |-> "ConnectionError", status_code |-> 0]}

\* A request that never raises for its status.
raise_for_status_never(r) == FALSE

\* r.raise_for_status(): HTTPError for a 4xx or 5xx status.
raise_for_status(r) == 400 <= r.status_code /\ r.status_code < 600

NoFetch ==
    [script |-> "none", pc |-> "idle", ntiles |-> 0, i |-> 0, requests |-> <<>>,
     pasted |-> {}, out |-> <<>>, exc |-> "", runs |-> 0]

InitFetch ==
    /\ disk \in {{}, {HgtPath}}
    /\ fetch = NoFetch

\* A file system on which no file is ever found.
os_path_exists_never(path) == FALSE

\* os.path.exists(hgt_path)
os_path_exists(path) == path \in disk

\* __main__ up to the SRTM request: the tile file on disk is read and no
\* request is made; otherwise the script is about to call requests.get.
StartFetch(script, ntiles) ==
    /\ fetch.pc \in {"idle", "done", "raised"}
    /\ fetch.runs < MaxFetches
    /\ fetch' = [script |-> script, ntiles |-> ntiles, i |-> 0, requests |-> <<>>,
                 pasted |-> {}, exc |-> "", runs |-> fetch.runs + 1,
                 pc |-> IF os_path_exists(HgtPath) THEN "tiles" ELSE "srtm",
                 out |-> IF script = "fetch_dem.py"
                         THEN IF os_path_exists(HgtPath)
                              THEN <<"SRTM tile already exists">>
                              ELSE <<"Downloading SRTM tile">>
                         ELSE IF os_path_exists(HgtPath) THEN <<>> ELSE <<"Downloading SRTM tile">>]
    /\ UNCHANGED disk
    /\ UNCHANGED notFetch

\* requests.get(url, timeout=120); r.raise_for_status(); the tile is
\* decompressed and written.  An exception ends the script.
SrtmReply(r) ==
    /\ fetch.pc = "srtm"
    /\ LET asked == Append(fetch.requests, [url |-> "srtm", reply |-> r])
       IN  IF r.exc # ""
           THEN /\ fetch' = [fetch EXCEPT !.requests = asked, !.pc = "raised", !.exc = r.exc]
                /\ UNCHANGED disk
           ELSE IF raise_for_status(r)
           THEN /\ fetch' = [fetch EXCEPT !.requests = asked, !.pc = "raised",
                                          !.exc = "HTTPError"]
                /\ UNCHANGED disk
           ELSE /\ fetch' = [fetch EXCEPT !.requests = asked, !.pc = "tiles",
                                          !.out = IF fetch.script = "fetch_dem.py"
                                                  THEN Append(@, "SRTM HGT saved") ELSE @]
                /\ disk' = disk \cup {HgtPath}
    /\ UNCHANGED notFetch

\* One turn of the tile loop: try requests.get; a 200 is pasted into the
\* mosaic; any other status and any exception leave the tile blank, and the
\* loop goes on to the next tile.
TileReply(r) ==
    /\ fetch.pc = "tiles"
    /\ fetch.i < fetch.ntiles
    /\ LET asked == Append(fetch.requests, [url |-> ToString(fetch.i), reply |-> r])
           said  == IF r.exc # "" THEN <<"Tile error">>
                    ELSE IF fetch.script # "fetch_dem.py" THEN <<>>
                    ELSE IF r.status_code = 200 THEN <<"Tile OK">> ELSE <<"Tile failed">>
       IN  fetch' = [fetch EXCEPT !.requests = asked, !.i = @ + 1,
                                  !.out = @ \o said,
                                  !.pasted = IF r.exc = "" /\ r.status_code = 200
                                             THEN @ \cup {fetch.i} ELSE @]
    /\ UNCHANGED disk
    /\ UNCHANGED notFetch

\* mosaic.save(...): the script runs to its end.
FinishFetch ==
    /\ fetch.pc = "tiles"
    /\ fetch.i = fetch.ntiles
    /\ fetch' = [fetch EXCEPT !.pc = "done"]
    /\ disk' = disk \cup {"osm.png"}
    /\ UNCHANGED notFetch

NextFetch ==
    \/ \E script \in FetchScripts, ntiles \in 1 .. MaxTiles : StartFetch(script, ntiles)
    \/ \E r \in ReplyChoices : SrtmReply(r)
    \/ \E r \in ReplyChoices : TileReply(r)
    \/ FinishFetch

(***************************************************************************)
(* Claims about the fetch scripts.                                         *)
(***************************************************************************)
\* C12 as stated: every request that came back with an HTTP error status is
\* the last request of the run, and the run ended by raising.
C12_ErrorStatusRaises ==
    \A k \in DOMAIN fetch.requests :
        fetch.requests[k].reply.status_code >= 400 =>
            k = Len(fetch.requests) /\ fetch.pc = "raised"

\* C12: an SRTM request that comes back with an HTTP error status is the
\* last request of the run, which ends with HTTPError; a map-tile request
\* that comes back with one leaves its tile out of the mosaic and the run
\* goes on to the next tile and ends normally; no URL is requested twice in
\* a run.
C12_ErrorStatusByRequest ==
    /\ \A k \in DOMAIN fetch.requests :
           LET q == fetch.requests[k]
           IN  q.reply.status_code >= 400 =>
                   IF q.url = "srtm"
                   THEN k = Len(fetch.requests) /\ fetch.pc = "raised" /\ fetch.exc = "HTTPError"
                   ELSE /\ fetch.pc \in {"tiles", "done"}
                        /\ \A t \in fetch.pasted : ToString(t) # q.url
    /\ \A j, k \in DOMAIN fetch.requests :
           fetch.requests[j].url = fetch.requests[k].url => j = k
    /\ fetch.pc = "raised" => fetch.requests[Len(fetch.requests)].url = "srtm"

\* A run whose first tile came back 404 went on to the second and finished.
C12_Witness ==
    /\ fetch.pc = "done"
    /\ \E k \in DOMAIN fetch.requests :
           /\ fetch.requests[k].url = "0"
           /\ fetch.requests[k].reply = Response(404)
    /\ 1 \in fetch.pasted

\* The requests of the running script for the SRTM tile.
SrtmRequests(f) == {i \in DOMAIN f.requests : f.requests[i].url = "srtm"}

\* A step that starts with the tile file on disk keeps the file and adds no
\* request for the tile.
CachedTileKept ==
    HgtPath \in disk =>
        /\ HgtPath \in disk'
        /\ Cardinality(SrtmRequests(fetch')) <= Cardinality(SrtmRequests(fetch))

\* C27: once the SRTM tile file exists in the data directory it stays there,
\* and every later run of a fetch script reads it and issues no HTTP request
\* for the tile.
C27_CachedTileNotRequested == [][CachedTileKept]_vars

\* A first run downloaded the tile and a second run of fetch_dem.py has
\* ended: it reported the cached file and asked for map tiles only.
C27_Witness ==
    /\ fetch.runs = 2
    /\ fetch.script = "fetch_dem.py"
    /\ fetch.pc = "done"
    /\ HgtPath \in disk
    /\ fetch.out # <<>>
    /\ Head(fetch.out) = "SRTM tile already exists"
    /\ fetch.requests # <<>>
    /\ SrtmRequests(fetch) = {}

(***************************************************************************)
(* Driver wiring inside the build scripts.  Whether the host's API has the *)
(* shape the wiring code is written for (driver_add(...).driver,           *)
(* driver.variables.new(), var.targets[0]) or raises on it is the host's;  *)
(* the scripts differ in what they do when it raises.                      *)
(***************************************************************************)
\* What the host does with the wiring calls.
ApiShapes == {"as_written", "AttributeError", "TypeError"}

\* The steps of each script around its driver wiring, in the order of its
\* main function.
WiringPlan(script) ==
    CASE script = "build_hole_5.py" ->
            <<"build_windmill_base", "build_windmill_blades", "build_green", "build_hole_marker">>
      [] script = "build_holes_6_9.py" ->
            <<"build_hole_8", "build_spinner", "view_layer.update">>
      [] script = "build_eskdale_theme.py" ->
            <<"build_atom_model", "build_boot_mill", "build_muncaster_tower", "save_mainfile">>
      [] script = "apply_pbr_landscaping.py" ->
            <<"enhance_wood_dark", "enhance_water", "enhance_dirt_soil", "create_landscaping">>

WiringScripts ==
    {"build_hole_5.py", "build_holes_6_9.py", "build_eskdale_theme.py", "apply_pbr_landscaping.py"}

\* The steps that wire a driver.
DriverSteps == {"build_windmill_blades", "build_spinner", "build_boot_mill", "enhance_water"}

\* The wiring of enhance_water is inside try / except Exception.
GuardedWiring == {"enhance_water"}

NoWiring == [script |-> "", shape |-> "as_written", done |-> <<>>, wired |-> {},
             warnings |-> 0, status |-> "idle", n |-> 0]

InitWiring == wiring = NoWiring

\* A script is started on a host with the given API shape.
StartWiring(script, shape) ==
    /\ wiring.status # "running"
    /\ wiring.n < MaxWirings
    /\ wiring' = [script |-> script, shape |-> shape, done |-> <<>>, wired |-> {},
                  warnings |-> 0, status |-> "running", n |-> wiring.n + 1]
    /\ UNCHANGED notWiring

\* The next step of the running script.  A step that wires a driver wires
\* it on a host of the written shape; on another host the call raises, and
\* the exception is caught and reported by the guarded step and leaves the
\* script from the others.
WiringStep ==
    /\ wiring.status = "running"
    /\ Len(wiring.done) < Len(WiringPlan(wiring.script))
    /\ LET step == WiringPlan(wiring.script)[Len(wiring.done) + 1]
       IN  IF step \in DriverSteps /\ wiring.shape # "as_written"
           THEN IF step \in GuardedWiring
                THEN wiring' = [wiring EXCEPT !.done = Append(@, step),
                                              !.warnings = @ + 1]
                ELSE wiring' = [wiring EXCEPT !.status = wiring.shape]
           ELSE wiring' = [wiring EXCEPT !.done = Append(@, step),
                                         !.wired = IF step \in DriverSteps
                                                   THEN @ \cup {step} ELSE @]
    /\ UNCHANGED notWiring

\* The script reaches the end of its main function.
FinishWiring ==
    /\ wiring.status = "running"
    /\ Len(wiring.done) = Len(WiringPlan(wiring.script))
    /\ wiring' = [wiring EXCEPT !.status = "ok"]
    /\ UNCHANGED notWiring

NextWiring ==
    \/ \E script \in WiringScripts, shape \in ApiShapes : StartWiring(script, shape)
    \/ WiringStep
    \/ FinishWiring

(***************************************************************************)
(* Claims about driver wiring.                                             *)
(***************************************************************************)
\* C17: on a host whose API shape differs, a script is never ended by its
\* driver wiring: once its other steps are done it has skipped the driver
\* with a warning and built everything after it.
C17_WiringNeverAborts ==
    wiring.shape # "as_written" =>
        /\ wiring.status \in {"idle", "running", "ok"}
        /\ wiring.status = "ok" => wiring.warnings >= 1 /\ wiring.wired = {}

\* build_hole_5.py was ended by the AttributeError of its driver wiring,
\* with the steps after build_windmill_blades not run and no warning.
C17_Witness ==
    /\ wiring.script = "build_hole_5.py"
    /\ wiring.status = "AttributeError"
    /\ wiring.done = <<"build_windmill_base">>
    /\ wiring.warnings = 0

(***************************************************************************)
(* Landscaping: the rock clusters of apply_pbr_landscaping.py.  The names  *)
(* a run creates depend on the random module's generator, which main seeds *)
(* with 2026 and create_rock seeds again with hash(name); the hash of a    *)
(* string is fixed within one Python process and salted per process.       *)
(***************************************************************************)
\* The values hash(name) can take in a process.
HashValues == 0 .. MaxHash

\* The uniform draws create_rock makes after seeding: three for each vertex
\* of the icosphere of subdivision 3.
RockDraws == 3 * 162

\* random.randint(3, 6) as a function of the generator's seed and of the
\* number of values drawn since: 3 for the generator main has just seeded
\* with 2026, and spread over 3 .. 6 by the seed otherwise.
randint_3_6(rng) ==
    IF rng = [seed |-> 2026, draws |-> 0] THEN 3
    ELSE 3 + ((rng.seed + rng.draws) % 4)

RockName(ci, ri) == "Rock_C" \o ToString(ci) \o "_R" \o ToString(ri)

NoLand == [hashes |-> EmptyDict, rng |-> [seed |-> 0, draws |-> 0], ci |-> 0,
           names |-> {}, prev |-> [done |-> FALSE, names |-> {}],
           status |-> "idle", runs |-> 0]

InitLand == land = NoLand

\* A new host process is started: its string hashes are salted anew.
StartProcess ==
    /\ land.status # "running"
    /\ land.hashes # EmptyDict
    /\ land' = [land EXCEPT !.hashes = EmptyDict]
    /\ UNCHANGED notLand

\* main, run on the initial scene: random.seed(2026), the material
\* enhancements (which draw nothing), then create_landscaping.
StartLandscaping ==
    /\ land.status # "running"
    /\ land.runs < MaxLandRuns
    /\ land' = [land EXCEPT !.rng = [seed |-> 2026, draws |-> 0],
                            !.ci = 0,
                            !.names = {},
                            !.prev = [done |-> land.status = "ok", names |-> land.names],
                            !.status = "running",
                            !.runs = @ + 1]
    /\ UNCHANGED notLand

\* One pass of the cluster loop of create_rock_clusters: num_rocks is drawn,
\* then create_rock is called for each rock and seeds the generator with
\* hash(name) before it displaces the vertices; the generator that reaches
\* the next pass is the one the cluster's last rock seeded.  h is the hash
\* of that name in this process.
RockCluster(h) ==
    /\ land.status = "running"
    /\ land.ci < MaxClusters
    /\ LET num_rocks == randint_3_6(land.rng)
           lastName  == RockName(land.ci, num_rocks - 1)
       IN  /\ lastName \in DOMAIN land.hashes => h = land.hashes[lastName]
           /\ land' = [land EXCEPT
                  !.names = @ \cup {RockName(land.ci, ri) : ri \in 0 .. num_rocks - 1},
                  !.hashes = DictSet(@, lastName, h),
                  !.rng = [seed |-> h, draws |-> RockDraws],
                  !.ci = @ + 1]
    /\ UNCHANGED notLand

\* The loop is over and the script ends.
FinishLandscaping ==
    /\ land.status = "running"
    /\ land.ci = MaxClusters
    /\ land' = [land EXCEPT !.status = "ok"]
    /\ UNCHANGED notLand

NextLand ==
    \/ StartProcess
    \/ StartLandscaping
    \/ \E h \in HashValues : RockCluster(h)
    \/ FinishLandscaping

(***************************************************************************)
(* Claims about landscaping.                                               *)
(***************************************************************************)
\* C18: two runs of the script from the same initial scene create the same
\* set of object names.
C18_SameNamesEveryRun ==
    (land.status = "ok" /\ land.prev.done) => land.names = land.prev.names

\* Two finished runs, the second in a new process, whose second clusters
\* differ in size.
C18_Witness ==
    /\ land.status = "ok"
    /\ land.prev.done
    /\ RockName(1, 3) \in land.prev.names
    /\ RockName(1, 3) \notin land.names
    /\ RockName(0, 2) \in land.names \cap land.prev.names

(***************************************************************************)
(* The command line of blender_ws.py.  argv is sys.argv without the        *)
(* script's name; a request is one call of send_command.                   *)
(***************************************************************************)
ArgvChoices ==
    { <<>>, <<"scene">>, <<"clear">>, <<"tools">>, <<"render">>, <<"exec">>,
      <<"render", "out.png">>, <<"exec", "print(1)">>, <<"scene", "extra">>,
      <<"render", "out.png", "extra">>, <<"list">>, <<"help">>, <<"screenshot", "out.png">> }

\* How a request can end: the reply's data, or an exception of send_command.
CliOutcomes == {"data", "RuntimeError", "WebSocketTimeoutException", "ConnectionRefusedError"}

UsageLines ==
    <<"Usage: blender_ws.py <command> [args]",
      "Commands: scene, clear, render <path>, exec <code>">>

\* The send_command call each helper of the command line makes.
get_scene_info == [tool |-> "get_scene_info", code |-> ""]

execute_python(code) == [tool |-> "execute_python", code |-> code]

clear_scene_request == execute_python("bpy.ops.object.delete")

render_image(output_path) == execute_python("render to " \o output_path)

list_tools == [tool |-> "list_tools", code |-> ""]

NoCli == [pc |-> "idle", argv |-> <<>>, requests |-> <<>>, stdout |-> <<>>,
          stderr |-> <<>>, exit |-> 0, n |-> 0]

InitCli == cli = NoCli

\* The script is started from a shell.
CliStart(argv) ==
    /\ cli.pc \in {"idle", "exited"}
    /\ cli.n < MaxCliRuns
    /\ cli' = [pc |-> "main", argv |-> argv, requests |-> <<>>, stdout |-> <<>>,
               stderr |-> <<>>, exit |-> 0, n |-> cli.n + 1]
    /\ UNCHANGED notCli

\* The if / elif chain of __main__.
CliMain ==
    /\ cli.pc = "main"
    /\ LET argv == cli.argv
           cmd  == argv[1]
           ask(request) == [cli EXCEPT !.pc = "request", !.requests = Append(@, request)]
       IN  cli' =
             IF Len(argv) + 1 < 2
             THEN [cli EXCEPT !.pc = "exited", !.stdout = UsageLines, !.exit = 1]
             ELSE IF cmd = "scene" THEN ask(get_scene_info)
             ELSE IF cmd = "clear" THEN ask(clear_scene_request)
             ELSE IF cmd = "render" /\ Len(argv) + 1 > 2 THEN ask(render_image(argv[2]))
             ELSE IF cmd = "exec" /\ Len(argv) + 1 > 2 THEN ask(execute_python(argv[2]))
             ELSE IF cmd = "tools" THEN ask(list_tools)
             ELSE [cli EXCEPT !.pc = "exited",
                              !.stdout = <<"Unknown command: " \o cmd>>]
    /\ UNCHANGED notCli

\* send_command returns and the result is printed, or it raises and the
\* exception ends the process with its traceback.
CliReply(how) ==
    /\ cli.pc = "request"
    /\ cli' = IF how = "data"
              THEN [cli EXCEPT !.pc = "exited", !.stdout = <<"json.dumps(result)">>]
              ELSE [cli EXCEPT !.pc = "exited", !.stderr = <<how>>, !.exit = 1]
    /\ UNCHANGED notCli

NextCli ==
    \/ \E argv \in ArgvChoices : CliStart(argv)
    \/ CliMain
    \/ \E how \in CliOutcomes : CliReply(how)

(***************************************************************************)
(* Claims about the command line.                                          *)
(***************************************************************************)
\* The invocations the claim calls accepted: scene, clear, tools, and render
\* or exec with an argument.
AcceptedInvocation(argv) ==
    /\ Len(argv) >= 1
    /\ \/ argv[1] \in {"scene", "clear", "tools"}
       \/ argv[1] \in {"render", "exec"} /\ Len(argv) >= 2

\* C20: an accepted invocation issues exactly one relay request; any other
\* invocation issues none and ends as a usage failure (the usage text, exit
\* status 1).
C20_OneRequestOrUsageFailure ==
    cli.pc \in {"request", "exited"} =>
        IF AcceptedInvocation(cli.argv)
        THEN Len(cli.requests) = 1
        ELSE cli.requests = <<>> /\ cli.exit # 0

\* render without a path has ended: no request, "Unknown command: render" on
\* standard output, exit status 0.
C20_Witness ==
    /\ cli.pc = "exited"
    /\ cli.argv = <<"render">>
    /\ cli.requests = <<>>
    /\ cli.stdout = <<"Unknown command: render">>
    /\ cli.stderr = <<>>
    /\ cli.exit = 0

(***************************************************************************)
(* Placement of the golf course on the terrain: terrain_and_place.py,      *)
(* reposition_golf.py and emplace_terrain.py.  An object has a location, a *)
(* Z rotation in degrees and a uniform scale; the rotations of the model   *)
(* are those whose cosine and sine are rational.                           *)
(***************************************************************************)
\* rotation_rad with math.cos(rotation_rad) and math.sin(rotation_rad).
Rotations ==
    { [deg |-> 0, cos |-> One, sin |-> Zero], [deg |-> 90, cos |-> Zero, sin |-> One] }

\* target_center and target_z, which main samples from the DEM.
PlaceTargets == { Vec(Int2Rat(21), Int2Rat(30), Int2Rat(2)),
                  Vec(Int2Rat(25), Int2Rat(43), Int2Rat(1)) }

\* Where a golf object can be before the first placement: the course spans
\* X = 0 .. 9.05, Y = 0 .. 16.
GolfLocations == { Vec(Zero, Zero, Zero), Vec(Rat(181, 40), Int2Rat(8), Zero),
                   Vec(Int2Rat(9), Int2Rat(16), One) }

\* meta["terrain_width_m"] / TERRAIN_W_BU for a terrain 1000 m wide.
m_per_bu == Rat(1000, 50)

\* GOLF_REAL_WIDTH_M / (9.05 * m_per_bu)
GolfScale == RatDiv(Int2Rat(40), RatMul(Rat(905, 100), m_per_bu))

orig_cx == Rat(4525, 1000)
orig_cy == Int2Rat(8)

\* The loop body of rescale_and_place_golf for one golf object.
rescale_and_place_golf(obj, target, rot) ==
    LET rx == RatMul(RatSub(obj.loc.x, orig_cx), GolfScale)
        ry == RatMul(RatSub(obj.loc.y, orig_cy), GolfScale)
        rz == RatMul(obj.loc.z, GolfScale)
        new_rx == RatSub(RatMul(rx, rot.cos), RatMul(ry, rot.sin))
        new_ry == RatAdd(RatMul(rx, rot.sin), RatMul(ry, rot.cos))
    IN  [loc |-> Vec(RatAdd(target.x, new_rx), RatAdd(target.y, new_ry),
                     RatAdd(target.z, rz)),
         scale |-> RatMul(obj.scale, GolfScale),
         rot |-> obj.rot + rot.deg]

\* The move reposition_golf.py takes back first: (old_dx, old_dy, old_dz).
OldMove == Vec(Rat(205, 10), Rat(349, 10), Rat(17, 10))

\* The loop body of rescale_and_reposition_golf for one golf object.
rescale_and_reposition_golf(obj, target, rot) ==
    LET x1 == RatSub(obj.loc.x, OldMove.x)
        y1 == RatSub(obj.loc.y, OldMove.y)
        z1 == RatSub(obj.loc.z, OldMove.z)
        x2 == RatAdd(orig_cx, RatMul(RatSub(x1, orig_cx), GolfScale))
        y2 == RatAdd(orig_cy, RatMul(RatSub(y1, orig_cy), GolfScale))
        z2 == RatMul(z1, GolfScale)
        dx == RatSub(x2, orig_cx)
        dy == RatSub(y2, orig_cy)
        x3 == RatAdd(orig_cx, RatSub(RatMul(dx, rot.cos), RatMul(dy, rot.sin)))
        y3 == RatAdd(orig_cy, RatAdd(RatMul(dx, rot.sin), RatMul(dy, rot.cos)))
    IN  [loc |-> Vec(RatAdd(x3, RatSub(target.x, orig_cx)),
                     RatAdd(y3, RatSub(target.y, orig_cy)),
                     RatAdd(z2, target.z)),
         scale |-> RatMul(obj.scale, GolfScale),
         rot |-> obj.rot + rot.deg]

\* The loop body of position_golf_on_terrain: the offset (dx, dy, dz) from
\* the course centre (4.5, 8.0) to the middle of a terrain of 50 x 85.8
\* units at the height 1.7 is added to the location.
position_golf_on_terrain(obj) ==
    LET dx == RatSub(RatMul(Rat(1, 2), Int2Rat(50)), Rat(45, 10))
        dy == RatSub(RatMul(Rat(1, 2), Rat(858, 10)), Int2Rat(8))
        dz == Rat(17, 10)
    IN  [obj EXCEPT !.loc = Vec(RatAdd(@.x, dx), RatAdd(@.y, dy), RatAdd(@.z, dz))]

NoPlacement == [script |-> "", target |-> Vec(Zero, Zero, Zero), deg |-> 0]

InitPlace ==
    \E l \in GolfLocations :
        place = [golf |-> [loc |-> l, scale |-> One, rot |-> 0],
                 before |-> [loc |-> l, scale |-> One, rot |-> 0],
                 run |-> NoPlacement, again |-> FALSE, n |-> 0]

\* A script has run: the golf object is as the script left it.
Placed(script, target, deg, obj) ==
    /\ place.n < MaxPlacements
    /\ place' = [golf |-> obj,
                 before |-> place.golf,
                 run |-> [script |-> script, target |-> target, deg |-> deg],
                 again |-> place.run = [script |-> script, target |-> target, deg |-> deg],
                 n |-> place.n + 1]
    /\ UNCHANGED notPlace

RunTerrainAndPlaceGolf(target, rot) ==
    Placed("terrain_and_place.py", target, rot.deg,
           rescale_and_place_golf(place.golf, target, rot))

RunRepositionGolf(target, rot) ==
    Placed("reposition_golf.py", target, rot.deg,
           rescale_and_reposition_golf(place.golf, target, rot))

RunEmplaceTerrain ==
    Placed("emplace_terrain.py", NoPlacement.target, 0, position_golf_on_terrain(place.golf))

NextPlace ==
    \/ \E target \in PlaceTargets, rot \in Rotations : RunTerrainAndPlaceGolf(target, rot)
    \/ \E target \in PlaceTargets, rot \in Rotations : RunRepositionGolf(target, rot)
    \/ RunEmplaceTerrain

(***************************************************************************)
(* Claims about placement.                                                 *)
(***************************************************************************)
\* C22: a placement script run again, with the same arguments, on the scene
\* it has already processed leaves the golf object's location, rotation and
\* scale as they were after the first run.
C22_RerunKeepsTransform ==
    place.again => place.golf = place.before

\* terrain_and_place.py has run twice with a quarter turn and the object is
\* scaled and turned twice.
C22_Witness ==
    /\ place.again
    /\ place.run.script = "terrain_and_place.py"
    /\ place.before.scale = GolfScale
    /\ place.golf.scale = RatMul(GolfScale, GolfScale)
    /\ place.before.rot = 90
    /\ place.golf.rot = 180
    /\ place.golf.loc # place.before.loc

(***************************************************************************)
(* Collection membership of one object, as the link_to_collection helpers  *)
(* of the scripts change it.  The scene root collection is                 *)
(* bpy.context.scene.collection; bpy.data.collections holds the others.    *)
(***************************************************************************)
SceneRoot == "Scene Collection"

DataCollections == {"H5_Obstacles", "H9_Obstacles", "Flythrough"}

\* obj.users_collection before a call.
MembershipChoices == SUBSET ({SceneRoot} \cup DataCollections)

\* A helper that leaves the object in the target collection only.
link_to_collection_exclusive(member, collection_name) == {collection_name}

\* hole_builder_utils.py: link, unlink from the scene root, unlink from
\* every other collection of bpy.data.collections.
link_to_collection_utils(member, collection_name) ==
    LET linked   == member \cup {collection_name}
        unrooted == linked \ {SceneRoot}
    IN  unrooted \ {c \in DataCollections : c # collection_name}

\* build_holes_6_9.py: link, unlink from the scene root.
link_to_collection_h69(member, collection_name) ==
    (member \cup {collection_name}) \ {SceneRoot}

\* build_hole_5.py: link, unlink from the scene root.
link_to_collection_h5(member, col_name) ==
    (member \cup {col_name}) \ {SceneRoot}

\* build_flythrough.py: unlink from every collection that uses the object,
\* then link.
link_to_collection_fly(member, collection) ==
    LET unlinked == member \ member
    IN  IF collection \notin unlinked THEN unlinked \cup {collection} ELSE unlinked

NoLink == [version |-> "", target |-> "", before |-> {}]

InitLink ==
    \E member \in MembershipChoices : links = [member |-> member, last |-> NoLink, n |-> 0]

Linked(version, target, member) ==
    /\ links.n < MaxLinks
    /\ links' = [member |-> member,
                 last |-> [version |-> version, target |-> target, before |-> links.member],
                 n |-> links.n + 1]
    /\ UNCHANGED notLink

CallLinkUtils(target) ==
    Linked("hole_builder_utils.py", target, link_to_collection_utils(links.member, target))

CallLinkH69(target) ==
    Linked("build_holes_6_9.py", target, link_to_collection_h69(links.member, target))

CallLinkH5(target) ==
    Linked("build_hole_5.py", target, link_to_collection_h5(links.member, target))

CallLinkFly(target) ==
    Linked("build_flythrough.py", target, link_to_collection_fly(links.member, target))

NextLink ==
    \/ \E target \in DataCollections : CallLinkUtils(target)
    \/ \E target \in DataCollections : CallLinkH69(target)
    \/ \E target \in DataCollections : CallLinkH5(target)
    \/ \E target \in DataCollections : CallLinkFly(target)

(***************************************************************************)
(* Claims about collection membership.                                     *)
(***************************************************************************)
\* C26 as stated: after link_to_collection returns, in every script's
\* version, the object is a member of the target collection and of no other,
\* whatever it belonged to before.
C26_OnlyInTarget ==
    links.last.version # "" => links.member = {links.last.target}

\* C26 amended: after link_to_collection returns the object is a member of
\* the target collection and not of the scene root collection.  The versions
\* of hole_builder_utils.py and build_flythrough.py leave it in no other
\* collection; the versions of build_hole_5.py and build_holes_6_9.py leave
\* it in every other collection of bpy.data.collections it belonged to
\* before the call.
C26_TargetAndNotRoot ==
    links.last.version # "" =>
        /\ links.last.target \in links.member
        /\ SceneRoot \notin links.member
        /\ links.last.version \in {"hole_builder_utils.py", "build_flythrough.py"}
              => links.member = {links.last.target}
        /\ links.last.version \in {"build_hole_5.py", "build_holes_6_9.py"}
              => links.member = (links.last.before \cup {links.last.target}) \ {SceneRoot}

\* The helper of build_holes_6_9.py has linked an object of the scene root
\* and of H5_Obstacles to H9_Obstacles: it is now in both obstacle
\* collections.
C26_Witness ==
    /\ links.last.version = "build_holes_6_9.py"
    /\ links.last.before = {SceneRoot, "H5_Obstacles"}
    /\ links.last.target = "H9_Obstacles"
    /\ links.member = {"H5_Obstacles", "H9_Obstacles"}

(***************************************************************************)
(* Sampling the DEM at a world coordinate: terrain_z_at of                 *)
(* skybox_hills_trees.py and the target lookups of terrain_and_place.py    *)
(* and reposition_golf.py.                                                 *)
(***************************************************************************)
TERRAIN_W == Int2Rat(50)

\* TERRAIN_W * (terrain_height_m / terrain_width_m) for a terrain of
\* 1000 m x 1600 m.
TERRAIN_H == RatMul(TERRAIN_W, Rat(1600, 1000))

\* World coordinates within, on the edge of and beyond the terrain extent.
WorldXs == {Int2Rat(-60), Rat(-1, 10), Zero, Rat(125, 10), Int2Rat(50), Rat(501, 10), Int2Rat(200)}

WorldYs == {Int2Rat(-60), Rat(-1, 10), Zero, Int2Rat(33), Int2Rat(80), Rat(801, 10), Int2Rat(200)}

\* DEM.shape
DemShapes == { <<1, 1>>, <<3, 4>>, <<51, 51>> }

\* int(f): truncation toward zero.
PyInt(f) == IF f.n >= 0 THEN f.n \div f.d ELSE -((-f.n) \div f.d)

\* An index used as computed.
Unclamped(i, size) == i

\* max(0, min(size - 1, i))
Clamp(i, size) ==
    LET least == IF size - 1 < i THEN size - 1 ELSE i
    IN  IF 0 < least THEN least ELSE 0

\* terrain_z_at(x, y): the row and the column of DEM[r, c].
terrain_z_at(x, y, shape) ==
    LET col_f == RatMul(RatDiv(x, TERRAIN_W), Int2Rat(shape[2] - 1))
        row_f == RatMul(RatSub(One, RatDiv(y, TERRAIN_H)), Int2Rat(shape[1] - 1))
    IN  [r |-> Clamp(PyInt(row_f), shape[1]), c |-> Clamp(PyInt(col_f), shape[2]),
         row_f |-> row_f, col_f |-> col_f]

\* The target lookup of the placement scripts: int(...) first, then the
\* clamp.
target_lookup(target_cx, target_cy, shape) ==
    LET dem_r == PyInt(RatMul(RatSub(One, RatDiv(target_cy, TERRAIN_H)),
                              Int2Rat(shape[1] - 1)))
        dem_c == PyInt(RatMul(RatDiv(target_cx, TERRAIN_W), Int2Rat(shape[2] - 1)))
    IN  [r |-> Clamp(dem_r, shape[1]), c |-> Clamp(dem_c, shape[2]),
         row_f |-> Int2Rat(dem_r), col_f |-> Int2Rat(dem_c)]

NoSample == [site |-> "", x |-> Zero, y |-> Zero, shape |-> <<1, 1>>,
             at |-> [r |-> 0, c |-> 0, row_f |-> Zero, col_f |-> Zero], n |-> 0]

InitSample == sample = NoSample

Sampled(site, x, y, shape, at) ==
    /\ sample.n < MaxSamples
    /\ sample' = [site |-> site, x |-> x, y |-> y, shape |-> shape, at |-> at,
                  n |-> sample.n + 1]
    /\ UNCHANGED notSample

CallTerrainZAt(x, y, shape) ==
    Sampled("terrain_z_at", x, y, shape, terrain_z_at(x, y, shape))

TargetElevation(x, y, shape) ==
    Sampled("target_elev", x, y, shape, target_lookup(x, y, shape))

NextSample ==
    \/ \E x \in WorldXs, y \in WorldYs, shape \in DemShapes : CallTerrainZAt(x, y, shape)
    \/ \E x \in WorldXs, y \in WorldYs, shape \in DemShapes : TargetElevation(x, y, shape)

(***************************************************************************)
(* Claims about DEM sampling.                                              *)
(***************************************************************************)
\* C28: for every world coordinate, those outside the terrain extent
\* included, the row and the column used to read the DEM lie within the
\* array: 0 <= r < rows and 0 <= c < cols.
C28_IndicesWithinDem ==
    sample.site # "" =>
        /\ 0 <= sample.at.r /\ sample.at.r <= sample.shape[1] - 1
        /\ 0 <= sample.at.c /\ sample.at.c <= sample.shape[2] - 1

\* terrain_z_at was called beyond two edges of the terrain: the computed
\* column is negative, the computed row past the last row, and the indices
\* used are the first column and the last row.
C28_Witness ==
    /\ sample.site = "terrain_z_at"
    /\ sample.x = Int2Rat(-60)
    /\ sample.y = Int2Rat(-60)
    /\ sample.shape = <<51, 51>>
    /\ RatLess(sample.at.col_f, Zero)
    /\ RatLess(Int2Rat(50), sample.at.row_f)
    /\ sample.at.c = 0
    /\ sample.at.r = 50

(***************************************************************************)
(* Objects and mesh data blocks of bpy.data, as the delete-and-recreate    *)
(* helpers of the build scripts remove and create them.  Each script is    *)
(* represented by the first object it rebuilds.                            *)
(***************************************************************************)
NoData == ""

EmptyStore == [objects |-> EmptyDict, meshes |-> {}]

\* The scene before a script runs: nothing, a fairway with a linked
\* duplicate that shares its mesh, or an empty where a script builds a mesh.
StoreChoices ==
    { EmptyStore,
      [objects |-> DictSet(DictSet(EmptyDict, "H2_Fairway",
                                   [type |-> "MESH", data |-> "H2_Fairway_mesh"]),
                           "H2_Fairway.001",
                           [type |-> "MESH", data |-> "H2_Fairway_mesh"]),
       meshes |-> {"H2_Fairway_mesh"}],
      [objects |-> DictSet(EmptyDict, "Woolpack_Inn_Walls",
                           [type |-> "EMPTY", data |-> NoData]),
       meshes |-> {}] }

\* mesh.users: the objects whose data is the mesh.
users(st, mesh) == Cardinality({o \in DOMAIN st.objects : st.objects[o].data = mesh})

\* bpy.data.meshes.new(name): the store and the name the new block got.
meshes_new(st, name) ==
    LET given == UniqueName(name, st.meshes)
    IN  [store |-> [st EXCEPT !.meshes = @ \cup {given}], mesh |-> given]

\* bpy.data.objects.new(name, mesh).
store_objects_new(st, name, mesh) ==
    [st EXCEPT !.objects = DictSet(@, UniqueName(name, DOMAIN @),
                                   [type |-> "MESH", data |-> mesh])]

\* bpy.data.objects.remove(obj, do_unlink=True).
objects_remove(st, name) == [st EXCEPT !.objects = DictDel(@, name)]

\* hole_builder_utils.py and build_eskdale_theme.py: the object, then its
\* mesh if nothing uses it any more.
remove_existing(st, name) ==
    IF name \notin DOMAIN st.objects THEN st
    ELSE LET obj == st.objects[name]
             mesh == IF obj.type = "MESH" THEN obj.data ELSE NoData
             removed == objects_remove(st, name)
         IN  IF mesh # NoData /\ users(removed, mesh) = 0
             THEN [removed EXCEPT !.meshes = @ \ {mesh}]
             ELSE removed

\* build_hole_5.py: the object only.
H5_remove_if_exists(st, name) ==
    IF name \in DOMAIN st.objects THEN objects_remove(st, name) ELSE st

\* build_hole_5.py: a mesh named as the object, and the object.
create_object_from_bmesh(st, name) ==
    LET made == meshes_new(st, name)
    IN  store_objects_new(made.store, name, made.mesh)

\* hole_builder_utils.py create_mesh_object.
utils_create_mesh_object(st, name) ==
    LET made == meshes_new(remove_existing(st, name), name \o "_mesh")
    IN  store_objects_new(made.store, name, made.mesh)

\* build_eskdale_theme.py add_cube: the primitive is made as "Cube" and then
\* it and its mesh are renamed.
add_cube(st, name) ==
    LET made == meshes_new(remove_existing(st, name), "Cube")
        renamed == UniqueName(name \o "_mesh", made.store.meshes \ {made.mesh})
    IN  store_objects_new([made.store EXCEPT !.meshes = (@ \ {made.mesh}) \cup {renamed}],
                          name, renamed)

\* build_hole_5.py build_tee_area.
store_build_tee_area(st) == create_object_from_bmesh(H5_remove_if_exists(st, "H5_Tee"), "H5_Tee")

NoRebuild == [script |-> "", rerun |-> FALSE, before |-> 0]

InitStore ==
    \E st \in StoreChoices : store = [data |-> st, ran |-> {}, last |-> NoRebuild, n |-> 0]

\* One run of a script on the scene as it is.
Rebuilt(script, after) ==
    /\ store.n < MaxRebuilds
    /\ store' = [data |-> after,
                 ran |-> store.ran \cup {script},
                 last |-> [script |-> script, rerun |-> script \in store.ran,
                           before |-> Cardinality(store.data.meshes)],
                 n |-> store.n + 1]
    /\ UNCHANGED notStore

RunBuildHole5Tee == Rebuilt("build_hole_5.py", store_build_tee_area(store.data))

RunBuildHoles24Fairway ==
    Rebuilt("build_holes_2_4.py", utils_create_mesh_object(store.data, "H2_Fairway"))

RunBuildThemeWalls ==
    Rebuilt("build_eskdale_theme.py", add_cube(store.data, "Woolpack_Inn_Walls"))

NextStore ==
    \/ RunBuildHole5Tee
    \/ RunBuildHoles24Fairway
    \/ RunBuildThemeWalls

\* C30: removing an object before recreating it also removes its mesh once
\* nothing else uses it, so a script run again leaves no more mesh data
\* blocks than there were before that run.
C30_RerunKeepsMeshCount ==
    store.last.rerun => Cardinality(store.data.meshes) <= store.last.before

\* build_hole_5.py run a second time: the tee's first mesh is still there
\* beside the new one, and no object uses it.
C30_Witness ==
    /\ store.last.rerun
    /\ store.last.script = "build_hole_5.py"
    /\ {"H5_Tee", "H5_Tee.001"} \subseteq store.data.meshes
    /\ users(store.data, "H5_Tee") = 0
    /\ DOMAIN store.data.objects = {"H5_Tee"}

\* C30 for the scripts that use remove_existing: run again, they leave the
\* number of mesh data blocks as it was.
C30_RemoveExistingKeepsMeshCount ==
    (store.last.rerun /\ store.last.script # "build_hole_5.py") =>
        Cardinality(store.data.meshes) = store.last.before

(***************************************************************************)
(* Specifications: one per part; the other parts stay idle.                *)
(***************************************************************************)
IdleRelay == InitRelay /\ environ = "unset"
IdleCut == terrain = <<>> /\ lastCut = NoCut /\ ncuts = 0
IdleScene == scene = EmptyScene /\ last = NoRun /\ nruns = 0
IdleBuild == build = NoBuild
IdleFetch == disk = {} /\ fetch = NoFetch
IdleWiring == wiring = NoWiring
IdleLand == land = NoLand
IdleCli == cli = NoCli
IdleSample == sample = NoSample
IdleStore == store = [data |-> EmptyStore, ran |-> {}, last |-> NoRebuild, n |-> 0]
IdleLink == links = [member |-> {}, last |-> NoLink, n |-> 0]
IdlePlace ==
    place = [golf |-> [loc |-> Vec(Zero, Zero, Zero), scale |-> One, rot |-> 0],
             before |-> [loc |-> Vec(Zero, Zero, Zero), scale |-> One, rot |-> 0],
             run |-> NoPlacement, again |-> FALSE, n |-> 0]

RelayAlone == InitRelay /\ IdleCut /\ InitRibbon /\ InitDriver /\ IdleScene /\ IdleBuild /\ IdleFetch /\ IdleWiring /\ IdleLand /\ IdleCli /\ IdlePlace /\ IdleLink /\ IdleSample /\ IdleStore

SpecRelay == RelayAlone /\ [][NextRelay]_vars

\* The client process runs and time passes; the host is free never to reply.
SpecRelayFair ==
    /\ SpecRelay
    /\ WF_vars(Connect \/ ConnectFail)
    /\ WF_vars(\E now \in ClockReadings : Send(now))
    /\ WF_vars(Tick)
    /\ WF_vars(RecvTimeout)
    /\ WF_vars(Recv)
    /\ WF_vars(Close)
    /\ WF_vars(Check)

CutAlone == InitCut /\ IdleRelay /\ InitRibbon /\ InitDriver /\ IdleScene /\ IdleBuild /\ IdleFetch /\ IdleWiring /\ IdleLand /\ IdleCli /\ IdlePlace /\ IdleLink /\ IdleSample /\ IdleStore

SpecCut == CutAlone /\ [][NextCut]_vars

RibbonAlone == InitRibbon /\ IdleRelay /\ IdleCut /\ InitDriver /\ IdleScene /\ IdleBuild /\ IdleFetch /\ IdleWiring /\ IdleLand /\ IdleCli /\ IdlePlace /\ IdleLink /\ IdleSample /\ IdleStore

SpecRibbon == RibbonAlone /\ [][NextRibbon]_vars

DriverAlone == InitDriver /\ IdleRelay /\ IdleCut /\ InitRibbon /\ IdleScene /\ IdleBuild /\ IdleFetch /\ IdleWiring /\ IdleLand /\ IdleCli /\ IdlePlace /\ IdleLink /\ IdleSample /\ IdleStore

SpecDriver == DriverAlone /\ [][NextDriver]_vars

SceneAlone == InitScene /\ IdleRelay /\ IdleCut /\ InitRibbon /\ InitDriver /\ IdleBuild /\ IdleFetch /\ IdleWiring /\ IdleLand /\ IdleCli /\ IdlePlace /\ IdleLink /\ IdleSample /\ IdleStore

SpecScene == SceneAlone /\ [][NextScene]_vars


BuildAlone == InitBuild /\ IdleRelay /\ IdleCut /\ InitRibbon /\ InitDriver /\ IdleScene /\ IdleFetch /\ IdleWiring /\ IdleLand /\ IdleCli /\ IdlePlace /\ IdleLink /\ IdleSample /\ IdleStore

SpecBuild == BuildAlone /\ [][NextBuild]_vars


FetchAlone == InitFetch /\ IdleRelay /\ IdleCut /\ InitRibbon /\ InitDriver /\ IdleScene /\ IdleBuild /\ IdleWiring /\ IdleLand /\ IdleCli /\ IdlePlace /\ IdleLink /\ IdleSample /\ IdleStore

SpecFetch == FetchAlone /\ [][NextFetch]_vars


WiringAlone == InitWiring /\ IdleRelay /\ IdleCut /\ InitRibbon /\ InitDriver /\ IdleScene /\ IdleBuild /\ IdleFetch /\ IdleLand /\ IdleCli /\ IdlePlace /\ IdleLink /\ IdleSample /\ IdleStore

SpecWiring == WiringAlone /\ [][NextWiring]_vars


LandAlone == InitLand /\ IdleRelay /\ IdleCut /\ InitRibbon /\ InitDriver /\ IdleScene /\ IdleBuild /\ IdleFetch /\ IdleWiring /\ IdleCli /\ IdlePlace /\ IdleLink /\ IdleSample /\ IdleStore

SpecLand == LandAlone /\ [][NextLand]_vars


CliAlone == InitCli /\ IdleRelay /\ IdleCut /\ InitRibbon /\ InitDriver /\ IdleScene /\ IdleBuild /\ IdleFetch /\ IdleWiring /\ IdleLand /\ IdlePlace /\ IdleLink /\ IdleSample /\ IdleStore

SpecCli == CliAlone /\ [][NextCli]_vars


PlaceAlone == InitPlace /\ IdleRelay /\ IdleCut /\ InitRibbon /\ InitDriver /\ IdleScene /\ IdleBuild /\ IdleFetch /\ IdleWiring /\ IdleLand /\ IdleCli /\ IdleLink /\ IdleSample /\ IdleStore

SpecPlace == PlaceAlone /\ [][NextPlace]_vars


LinkAlone == InitLink /\ IdleRelay /\ IdleCut /\ InitRibbon /\ InitDriver /\ IdleScene /\ IdleBuild /\ IdleFetch /\ IdleWiring /\ IdleLand /\ IdleCli /\ IdlePlace /\ IdleSample /\ IdleStore

SpecLink == LinkAlone /\ [][NextLink]_vars


SampleAlone == InitSample /\ IdleRelay /\ IdleCut /\ InitRibbon /\ InitDriver /\ IdleScene /\ IdleBuild /\ IdleFetch /\ IdleWiring /\ IdleLand /\ IdleCli /\ IdlePlace /\ IdleLink /\ IdleStore

SpecSample == SampleAlone /\ [][NextSample]_vars

StoreAlone == InitStore /\ IdleRelay /\ IdleCut /\ InitRibbon /\ InitDriver /\ IdleScene /\ IdleBuild /\ IdleFetch /\ IdleWiring /\ IdleLand /\ IdleCli /\ IdlePlace /\ IdleLink /\ IdleSample

SpecStore == StoreAlone /\ [][NextStore]_vars

====
